---- MODULE Spec2Model ----
(***************************************************************************)
(* Shader resource layout of the D3D12 backend                            *)
(* (Graphics/GraphicsEngineD3D12/src/ShaderResourceLayoutD3D12.cpp):      *)
(* construction of a layout (Initialize, clone constructor), binding of   *)
(* resources into a resource cache (BindResource, BindResources), name    *)
(* lookup (GetShaderVariable) and the copy of static resources into the   *)
(* cache of a shader resource binding.                                    *)
(***************************************************************************)
EXTENDS Integers, Sequences, FiniteSets, TLC

VARIABLES
    shader,     \* the reflected resources (ShaderResourcesD3D12) all layouts share
    build,      \* the preprocessor configuration the file is compiled with
    layouts,    \* "stat": layout of the shader, "ref": layout of the pipeline state,
                \* "srb", "srb2": clones of "ref" held by two binding objects
    built,      \* the layouts constructed so far
    srbAllowed, \* AllowedVarTypes given to the clone constructor
    rootSig,    \* the root signature of the pipeline state (slot allocator)
    cache,      \* "stat": static resource cache of the shader, "srb", "srb2": caches of
                \* the binding objects
    solo,       \* the caches of the binding objects as the calls made on each object
                \* alone leave them
    lastOp,     \* the last call made, what it was given, what it returned and logged
    tick,       \* parity of the number of calls made
    aborted,    \* a fatal check has failed
    deviceContext \* the state a device context caches (DeviceContextBase)

vars == <<shader, build, layouts, built, srbAllowed, rootSig, cache, solo, lastOp, tick, aborted,
          deviceContext>>

----------------------------------------------------------------------------
(* Bounds of the model *)

\* Number of elements a resource mapping provides per name
MaxArraySize == 2

----------------------------------------------------------------------------
(* Enumerations *)

VarTypeOrder == <<"Static", "Mutable", "Dynamic">>
VarTypes == {"Static", "Mutable", "Dynamic"}

D3D12_DESCRIPTOR_RANGE_TYPE_SRV == 0
D3D12_DESCRIPTOR_RANGE_TYPE_UAV == 1
D3D12_DESCRIPTOR_RANGE_TYPE_CBV == 2
D3D12_DESCRIPTOR_RANGE_TYPE_SAMPLER == 3

InvalidSamplerId == 0

Null == "null"
NullHandle == [ptr |-> Null]

GetDescriptorRangeType(ResType) ==
    CASE ResType = "CBV" -> D3D12_DESCRIPTOR_RANGE_TYPE_CBV
      [] ResType \in {"TexSRV", "BufSRV"} -> D3D12_DESCRIPTOR_RANGE_TYPE_SRV
      [] ResType \in {"TexUAV", "BufUAV"} -> D3D12_DESCRIPTOR_RANGE_TYPE_UAV
      [] ResType = "Sampler" -> D3D12_DESCRIPTOR_RANGE_TYPE_SAMPLER

----------------------------------------------------------------------------
(* Device objects a caller can hand to BindResource or put into a mapping *)

ObjDesc ==
    [ub1   |-> [Class |-> "Buffer", Uniform |-> TRUE, ViewType |-> "-", Sampler |-> Null],
     ub2   |-> [Class |-> "Buffer", Uniform |-> TRUE, ViewType |-> "-", Sampler |-> Null],
     vb    |-> [Class |-> "Buffer", Uniform |-> FALSE, ViewType |-> "-", Sampler |-> Null],
     tv1   |-> [Class |-> "TextureView", Uniform |-> FALSE, ViewType |-> "SRV", Sampler |-> "s1"],
     tv2   |-> [Class |-> "TextureView", Uniform |-> FALSE, ViewType |-> "SRV", Sampler |-> "s2"],
     tvNS  |-> [Class |-> "TextureView", Uniform |-> FALSE, ViewType |-> "SRV", Sampler |-> Null],
     tvUAV |-> [Class |-> "TextureView", Uniform |-> FALSE, ViewType |-> "UAV", Sampler |-> Null],
     bvSRV |-> [Class |-> "BufferView", Uniform |-> FALSE, ViewType |-> "SRV", Sampler |-> Null],
     bvUAV |-> [Class |-> "BufferView", Uniform |-> FALSE, ViewType |-> "UAV", Sampler |-> Null]]

Objects == DOMAIN ObjDesc

\* GetCBVHandle / GetCPUDescriptorHandle of a device object
GetCPUDescriptorHandle(obj) == [ptr |-> obj]

\* An empty cache slot: ShaderResourceCacheD3D12::Resource()
NullResource == [pObject |-> Null, Type |-> "Unknown", CPUDescriptorHandle |-> NullHandle]

----------------------------------------------------------------------------
(* Reflected shader resources *)

Resource(name, kind, vt, bp, cnt, sam) ==
    [Name |-> name, Kind |-> kind, VarType |-> vt, BindPoint |-> bp, BindCount |-> cnt,
     SamplerId |-> sam]

SamplerAttribs(name, vt, bp, cnt, static) ==
    [Name |-> name, VarType |-> vt, BindPoint |-> bp, BindCount |-> cnt, Static |-> static]

\* One static constant buffer, a mutable texture array sharing one sampler, a dynamic UAV
ShaderA ==
    [Resources |-> << Resource("cbS", "CB", "Static", 0, 1, InvalidSamplerId),
                      Resource("texM", "TexSRV", "Mutable", 0, MaxArraySize, 1),
                      Resource("uavD", "BufUAV", "Dynamic", 0, 1, InvalidSamplerId) >>,
     Samplers  |-> << SamplerAttribs("texM_sampler", "Mutable", 0, 1, FALSE) >>]

\* A static texture array with one sampler per element, a dynamic texture with a sampler
ShaderB ==
    [Resources |-> << Resource("cbM", "CB", "Mutable", 0, 1, InvalidSamplerId),
                      Resource("texS", "TexSRV", "Static", 0, MaxArraySize, 1),
                      Resource("texD", "TexSRV", "Dynamic", MaxArraySize, 1, 2) >>,
     Samplers  |-> << SamplerAttribs("texS_sampler", "Static", 0, MaxArraySize, FALSE),
                      SamplerAttribs("texD_sampler", "Dynamic", MaxArraySize, 1, FALSE) >>]

\* A texture with a static sampler, views of every kind
ShaderC ==
    [Resources |-> << Resource("cbS", "CB", "Static", 0, 1, InvalidSamplerId),
                      Resource("texFix", "TexSRV", "Mutable", 0, 1, 1),
                      Resource("tuavM", "TexUAV", "Mutable", 0, 1, InvalidSamplerId),
                      Resource("bsrvD", "BufSRV", "Dynamic", 1, 1, InvalidSamplerId) >>,
     Samplers  |-> << SamplerAttribs("texFix_sampler", "Mutable", 0, 1, TRUE) >>]

\* Two pairs of resources that carry the same name
ShaderD ==
    [Resources |-> << Resource("dupM", "CB", "Mutable", 0, 1, InvalidSamplerId),
                      Resource("dupM", "CB", "Mutable", 1, 1, InvalidSamplerId),
                      Resource("dupX", "CB", "Dynamic", 2, 1, InvalidSamplerId),
                      Resource("dupX", "BufSRV", "Static", 0, 1, InvalidSamplerId) >>,
     Samplers  |-> << >>]

\* A static constant buffer and a dynamic texture with its sampler
ShaderCbTex ==
    [Resources |-> << Resource("cbS", "CB", "Static", 0, 1, InvalidSamplerId),
                      Resource("texD", "TexSRV", "Dynamic", 0, 1, 1) >>,
     Samplers  |-> << SamplerAttribs("texD_sampler", "Dynamic", 0, 1, FALSE) >>]

\* A mutable texture array whose elements share one sampler
ShaderTexArr ==
    [Resources |-> << Resource("texM", "TexSRV", "Mutable", 0, MaxArraySize, 1) >>,
     Samplers  |-> << SamplerAttribs("texM_sampler", "Mutable", 0, 1, FALSE) >>]

\* A static texture with its sampler
ShaderTexS ==
    [Resources |-> << Resource("texS", "TexSRV", "Static", 1, 1, 1) >>,
     Samplers  |-> << SamplerAttribs("texS_sampler", "Static", 1, 1, FALSE) >>]

\* A mutable texture UAV and a dynamic buffer UAV
ShaderUav ==
    [Resources |-> << Resource("tuavM", "TexUAV", "Mutable", 0, 1, InvalidSamplerId),
                      Resource("uavD", "BufUAV", "Dynamic", 1, 1, InvalidSamplerId) >>,
     Samplers  |-> << >>]

\* A static texture array of two elements with one sampler per element, a
\* mutable constant buffer
ShaderStatArr ==
    [Resources |-> << Resource("cbM", "CB", "Mutable", 0, 1, InvalidSamplerId),
                      Resource("texS", "TexSRV", "Static", 0, 2, 1) >>,
     Samplers  |-> << SamplerAttribs("texS_sampler", "Static", 0, 2, FALSE) >>]

\* A dynamic texture array with one sampler per element
ShaderTexEach ==
    [Resources |-> << Resource("texD", "TexSRV", "Dynamic", 0, MaxArraySize, 1) >>,
     Samplers  |-> << SamplerAttribs("texD_sampler", "Dynamic", 0, MaxArraySize, FALSE) >>]

\* A dynamic texture with its sampler and a dynamic texture that has no sampler
ShaderTexNoSampler ==
    [Resources |-> << Resource("texD", "TexSRV", "Dynamic", 0, 1, 1),
                      Resource("texFix", "TexSRV", "Dynamic", 1, 1, InvalidSamplerId) >>,
     Samplers  |-> << SamplerAttribs("texD_sampler", "Dynamic", 0, 1, FALSE) >>]

\* Textures of every variable type; the samplers of the first two are static samplers
ShaderFixed ==
    [Resources |-> << Resource("texS", "TexSRV", "Static", 0, 1, 1),
                      Resource("texFix", "TexSRV", "Mutable", 1, 1, 2),
                      Resource("texD", "TexSRV", "Dynamic", 2, 1, 3) >>,
     Samplers  |-> << SamplerAttribs("texS_sampler", "Static", 0, 1, TRUE),
                      SamplerAttribs("texFix_sampler", "Mutable", 1, 1, TRUE),
                      SamplerAttribs("texD_sampler", "Dynamic", 2, 1, FALSE) >>]

\* The scenario of the specification: a static constant buffer, a mutable
\* texture array of three elements that share one mutable sampler, a dynamic
\* buffer UAV, all at bind point 0
ScenarioBindCount == 3

ShaderScenario ==
    [Resources |-> << Resource("cbS", "CB", "Static", 0, 1, InvalidSamplerId),
                      Resource("texM", "TexSRV", "Mutable", 0, ScenarioBindCount, 1),
                      Resource("uavD", "BufUAV", "Dynamic", 0, 1, InvalidSamplerId) >>,
     Samplers  |-> << SamplerAttribs("texM_sampler", "Mutable", 0, 1, FALSE) >>]

\* The shaders of the specifications
LayoutShaders == {ShaderA, ShaderB, ShaderC, ShaderD, ShaderScenario}
BindShaders == {ShaderCbTex, ShaderTexArr, ShaderTexS, ShaderUav}
BindAllShaders == {ShaderA, ShaderB, ShaderC}

Names == {"cbS", "texM", "uavD", "cbM", "texS", "texD", "texFix", "tuavM", "bsrvD",
          "dupM", "dupX", "nosuch"}

\* The sets of variable types a caller passes as AllowedVarTypes
Filters == {{"Static"}, {"Mutable", "Dynamic"}, {"Static", "Mutable", "Dynamic"}}

\* Mutant: every variable type passes the filter
IsAllowedTypeAny(VarType, AllowedTypeBits) == TRUE

IsAllowedType(VarType, AllowedTypeBits) == VarType \in AllowedTypeBits

\* ShaderResourcesD3D12::ProcessResources: the resources of the allowed types,
\* in the order of the reflection, each handed to the handler of its kind
ProcessResources(resources, AllowedVarTypes) ==
    SelectSeq(resources.Resources, LAMBDA r : IsAllowedType(r.VarType, AllowedVarTypes))

----------------------------------------------------------------------------
(* Root signature of the pipeline state: the slot allocator *)

\* RootSignature::AllocateResourceSlot: a constant buffer gets a root view of
\* its own; every other resource gets the next free offsets of the table of its
\* descriptor heap and variable type. Offsets within one table only grow.
HeapOf(RangeType) ==
    IF RangeType = D3D12_DESCRIPTOR_RANGE_TYPE_SAMPLER THEN "SAMPLER" ELSE "CBV_SRV_UAV"

TableOf(rs, heap, vt) ==
    {i \in 1..Len(rs) : rs[i].Kind = "Table" /\ rs[i].Heap = heap /\ rs[i].VarType = vt}

AllocateResourceSlot(rs, Attribs, RangeType) ==
    IF RangeType = D3D12_DESCRIPTOR_RANGE_TYPE_CBV
    THEN [rs |-> Append(rs, [Kind |-> "View", Heap |-> "CBV_SRV_UAV",
                             VarType |-> Attribs.VarType, Size |-> Attribs.BindCount]),
          RootIndex |-> Len(rs), Offset |-> 0]
    ELSE LET tbl == TableOf(rs, HeapOf(RangeType), Attribs.VarType)
         IN IF tbl = {}
            THEN [rs |-> Append(rs, [Kind |-> "Table", Heap |-> HeapOf(RangeType),
                                     VarType |-> Attribs.VarType, Size |-> Attribs.BindCount]),
                  RootIndex |-> Len(rs), Offset |-> 0]
            ELSE LET i == CHOOSE j \in tbl : TRUE
                 IN [rs |-> [rs EXCEPT ![i].Size = @ + Attribs.BindCount],
                     RootIndex |-> i - 1, Offset |-> rs[i].Size]

----------------------------------------------------------------------------
(* Resource cache *)

\* ShaderResourceCacheD3D12::Initialize(NumTables, TableSizes)
InitializeCache(TableSizes) ==
    [t \in 1..Len(TableSizes) |-> [o \in 1..TableSizes[t] |-> NullResource]]

\* RootSignature::InitResourceCache: one table per root entry
InitResourceCache(rs) == InitializeCache([i \in 1..Len(rs) |-> rs[i].Size])

GetNumRootTables(c) == Len(c)
GetRootTable(c, RootIndex) == c[RootIndex + 1]
GetSize(table) == Len(table)
\* RootTable::GetResource is bounds checked
InCache(c, RootIndex, Offset) ==
    /\ RootIndex >= 0 /\ RootIndex < GetNumRootTables(c)
    /\ Offset >= 0 /\ Offset < GetSize(GetRootTable(c, RootIndex))
GetResource(c, RootIndex, Offset) == GetRootTable(c, RootIndex)[Offset + 1]
SetResource(c, RootIndex, Offset, res) == [c EXCEPT ![RootIndex + 1][Offset + 1] = res]

----------------------------------------------------------------------------
(* The layout *)

ZeroCounts == [v \in VarTypes |-> 0]
NoHash == [n \in Names |-> 0]

\* ShaderResourceLayoutD3D12(Owner, Allocator): no resources, empty hash map
EmptyLayout ==
    [NumCbvSrvUav |-> ZeroCounts, NumSamplers |-> ZeroCounts,
     SrvCbvUav |-> [v \in VarTypes |-> << >>], Samplers |-> [v \in VarTypes |-> << >>],
     VariableHash |-> NoHash]

GetTotalSrvCbvUavCount(L) ==
    L.NumCbvSrvUav["Static"] + L.NumCbvSrvUav["Mutable"] + L.NumCbvSrvUav["Dynamic"]

\* GetSrvCbvUav(r): the bindings of all variable types as one array,
\* static first, then mutable, then dynamic
AllSrvCbvUav(L) ==
    L.SrvCbvUav["Static"] \o L.SrvCbvUav["Mutable"] \o L.SrvCbvUav["Dynamic"]

GetSampler(L, VarType, SamplerId) == L.Samplers[VarType][SamplerId]

IsValidSampler(b) == b.SamplerId # InvalidSamplerId

\* GetAssignedSampler(TexSrv)
GetAssignedSampler(L, TexSrv) == GetSampler(L, TexSrv.Attribs.VarType, TexSrv.SamplerId)

ResTypeOfKind(Kind) == IF Kind = "CB" THEN "CBV" ELSE Kind

\* First pass of Initialize: count the bindings per variable type
RECURSIVE CountResources(_, _, _, _)
CountResources(resources, list, i, counts) ==
    IF i > Len(list) THEN counts
    ELSE LET r == list[i]
             vt == r.VarType
             c1 == [counts EXCEPT !.NumCbvSrvUav[vt] = @ + 1]
             isSam == /\ r.Kind = "TexSRV"
                      /\ r.SamplerId # InvalidSamplerId
                      /\ ~resources.Samplers[r.SamplerId].Static
             c2 == IF isSam THEN [c1 EXCEPT !.NumSamplers[vt] = @ + 1] ELSE c1
         IN CountResources(resources, list, i + 1, c2)

Max(a, b) == IF a >= b THEN a ELSE b

\* Mutant: the resources of a table are packed from offset 0
StaticModeSlotPacked(Attribs, RangeType) == [RootIndex |-> RangeType, Offset |-> 0]

\* The slot of a resource when no root signature is given: the table of its
\* descriptor range type, at its bind point
StaticModeSlot(Attribs, RangeType) == [RootIndex |-> RangeType, Offset |-> Attribs.BindPoint]

\* The slot of a resource or sampler: from the allocator, or from the bind point.
\* order lists the names in the order their slots are resolved.
ResolveSlot(acc, Attribs, RangeType, useRootSig) ==
    IF useRootSig
    THEN LET a == AllocateResourceSlot(acc.rs, Attribs, RangeType)
         IN [acc EXCEPT !.rs = a.rs, !.RootIndex = a.RootIndex, !.Offset = a.Offset,
                        !.allocs = @ + 1, !.order = Append(@, Attribs.Name)]
    ELSE LET s == StaticModeSlot(Attribs, RangeType)
         IN [acc EXCEPT !.RootIndex = s.RootIndex, !.Offset = s.Offset,
                        !.MaxBindPoint[s.RootIndex] =
                             Max(@, s.Offset + Attribs.BindCount),
                        !.order = Append(@, Attribs.Name)]

\* AddResource lambda of Initialize
AddResource(acc, Attribs, ResType, SamplerId, useRootSig) ==
    LET a == ResolveSlot(acc, Attribs, GetDescriptorRangeType(ResType), useRootSig)
    IN [a EXCEPT !.SrvCbvUav[Attribs.VarType] =
            Append(@, [Attribs |-> Attribs, ResType |-> ResType, RootIndex |-> a.RootIndex,
                       OffsetFromTableStart |-> a.Offset, SamplerId |-> SamplerId])]

\* Mutant: a static sampler is resolved like any other sampler
AddTexSRVAnySampler(acc, resources, TexSRV, useRootSig) ==
    IF TexSRV.SamplerId # InvalidSamplerId
    THEN LET SrcSamplerAttribs == resources.Samplers[TexSRV.SamplerId]
             a == ResolveSlot(acc, SrcSamplerAttribs, D3D12_DESCRIPTOR_RANGE_TYPE_SAMPLER,
                              useRootSig)
             SamplerId == Len(a.Samplers[TexSRV.VarType]) + 1
             b == [a EXCEPT !.Samplers[TexSRV.VarType] =
                      Append(@, [Attribs |-> SrcSamplerAttribs, RootIndex |-> a.RootIndex,
                                 OffsetFromTableStart |-> a.Offset])]
         IN AddResource(b, TexSRV, "TexSRV", SamplerId, useRootSig)
    ELSE AddResource(acc, TexSRV, "TexSRV", InvalidSamplerId, useRootSig)

\* Mutant: the texture first, then its sampler
AddTexSRVTextureFirst(acc, resources, TexSRV, useRootSig) ==
    IF TexSRV.SamplerId # InvalidSamplerId /\ ~resources.Samplers[TexSRV.SamplerId].Static
    THEN LET SrcSamplerAttribs == resources.Samplers[TexSRV.SamplerId]
             t == AddResource(acc, TexSRV, "TexSRV", Len(acc.Samplers[TexSRV.VarType]) + 1,
                              useRootSig)
             a == ResolveSlot(t, SrcSamplerAttribs, D3D12_DESCRIPTOR_RANGE_TYPE_SAMPLER,
                              useRootSig)
         IN [a EXCEPT !.Samplers[TexSRV.VarType] =
                Append(@, [Attribs |-> SrcSamplerAttribs, RootIndex |-> a.RootIndex,
                           OffsetFromTableStart |-> a.Offset])]
    ELSE AddResource(acc, TexSRV, "TexSRV", InvalidSamplerId, useRootSig)

\* The texture SRV handler of the second pass: the sampler first, then the texture
AddTexSRV(acc, resources, TexSRV, useRootSig) ==
    IF TexSRV.SamplerId # InvalidSamplerId /\ ~resources.Samplers[TexSRV.SamplerId].Static
    THEN LET SrcSamplerAttribs == resources.Samplers[TexSRV.SamplerId]
             a == ResolveSlot(acc, SrcSamplerAttribs, D3D12_DESCRIPTOR_RANGE_TYPE_SAMPLER,
                              useRootSig)
             SamplerId == Len(a.Samplers[TexSRV.VarType]) + 1
             b == [a EXCEPT !.Samplers[TexSRV.VarType] =
                      Append(@, [Attribs |-> SrcSamplerAttribs, RootIndex |-> a.RootIndex,
                                 OffsetFromTableStart |-> a.Offset])]
         IN AddResource(b, TexSRV, "TexSRV", SamplerId, useRootSig)
    ELSE AddResource(acc, TexSRV, "TexSRV", InvalidSamplerId, useRootSig)

\* Second pass of Initialize
RECURSIVE ResolveResources(_, _, _, _, _)
ResolveResources(resources, list, i, acc, useRootSig) ==
    IF i > Len(list) THEN acc
    ELSE LET r == list[i]
             a == IF r.Kind = "TexSRV" THEN AddTexSRV(acc, resources, r, useRootSig)
                  ELSE AddResource(acc, r, ResTypeOfKind(r.Kind), InvalidSamplerId, useRootSig)
         IN ResolveResources(resources, list, i + 1, a, useRootSig)

\* Mutant: a key that is present takes the new value
HashInsertOverwrite(hash, name, r) == [hash EXCEPT ![name] = r]

\* unordered_map::insert: a key that is present keeps its value
HashInsert(hash, name, r) == IF hash[name] # 0 THEN hash ELSE [hash EXCEPT ![name] = r]

\* InitVariablesHashMap
RECURSIVE InitVariablesHashMap(_, _, _)
InitVariablesHashMap(all, r, hash) ==
    IF r > Len(all) THEN hash
    ELSE InitVariablesHashMap(all, r + 1, HashInsert(hash, all[r].Attribs.Name, r))

\* Mutant: the sizes are listed in the order constant buffers, SRVs, UAVs, samplers
CachedTblSizesByKind(MaxBindPoint) ==
    << MaxBindPoint[D3D12_DESCRIPTOR_RANGE_TYPE_CBV] + 1,
       MaxBindPoint[D3D12_DESCRIPTOR_RANGE_TYPE_SRV] + 1,
       MaxBindPoint[D3D12_DESCRIPTOR_RANGE_TYPE_UAV] + 1,
       MaxBindPoint[D3D12_DESCRIPTOR_RANGE_TYPE_SAMPLER] + 1 >>

\* Sizes of the four tables of a static resource cache
CachedTblSizes(MaxBindPoint) ==
    << MaxBindPoint[D3D12_DESCRIPTOR_RANGE_TYPE_SRV] + 1,
       MaxBindPoint[D3D12_DESCRIPTOR_RANGE_TYPE_UAV] + 1,
       MaxBindPoint[D3D12_DESCRIPTOR_RANGE_TYPE_CBV] + 1,
       MaxBindPoint[D3D12_DESCRIPTOR_RANGE_TYPE_SAMPLER] + 1 >>

\* Mutant: the sizes of the tables are taken before any resource is resolved
InitializeResultEarlyCache(counts, acc, useHash) ==
    LET L0 == [NumCbvSrvUav |-> counts.NumCbvSrvUav, NumSamplers |-> counts.NumSamplers,
               SrvCbvUav |-> acc.SrvCbvUav, Samplers |-> acc.Samplers,
               VariableHash |-> NoHash]
    IN [layout |-> IF useHash
                   THEN [L0 EXCEPT !.VariableHash = InitVariablesHashMap(AllSrvCbvUav(L0), 1, NoHash)]
                   ELSE L0,
        rs |-> acc.rs,
        allocs |-> acc.allocs,
        order |-> acc.order,
        TblSizes |-> CachedTblSizes([t \in 0..3 |-> -1])]

\* What Initialize leaves, from the counts of its first pass and the bindings
\* of its second: the layout, the allocator after the call and, when a cache
\* is given, the sizes of its tables.
InitializeResult(counts, acc, useHash) ==
    LET L0 == [NumCbvSrvUav |-> counts.NumCbvSrvUav, NumSamplers |-> counts.NumSamplers,
               SrvCbvUav |-> acc.SrvCbvUav, Samplers |-> acc.Samplers,
               VariableHash |-> NoHash]
    IN [layout |-> IF useHash
                   THEN [L0 EXCEPT !.VariableHash = InitVariablesHashMap(AllSrvCbvUav(L0), 1, NoHash)]
                   ELSE L0,
        rs |-> acc.rs,
        allocs |-> acc.allocs,
        order |-> acc.order,
        TblSizes |-> CachedTblSizes(acc.MaxBindPoint)]

\* The two passes of Initialize over the resources of the allowed types
InitializePasses(resources, list, rs, useRootSig, useHash) ==
    InitializeResult(
        CountResources(resources, list, 1,
                       [NumCbvSrvUav |-> ZeroCounts, NumSamplers |-> ZeroCounts]),
        ResolveResources(resources, list, 1,
                         [SrvCbvUav |-> [v \in VarTypes |-> << >>],
                          Samplers |-> [v \in VarTypes |-> << >>],
                          MaxBindPoint |-> [t \in 0..3 |-> -1],
                          rs |-> rs, RootIndex |-> 0, Offset |-> 0, allocs |-> 0,
                          order |-> << >>],
                         useRootSig),
        useHash)

\* ShaderResourceLayoutD3D12::Initialize
InitializeLayout(resources, AllowedVarTypes, rs, useRootSig, useHash) ==
    InitializePasses(resources, ProcessResources(resources, AllowedVarTypes), rs,
                     useRootSig, useHash)

----------------------------------------------------------------------------
(* The clone constructor *)

\* Mutant: one counter for the samplers of all variable types
CloneSamplerIdShared(CurrSampler, VarType) ==
    CurrSampler["Static"] + CurrSampler["Mutable"] + CurrSampler["Dynamic"] + 1

\* The id the clone gives to the sampler of a texture: the next free place
\* among the samplers of the variable type
CloneSamplerId(CurrSampler, VarType) == CurrSampler[VarType] + 1

\* The loop over the bindings of one variable type
RECURSIVE CloneBindings(_, _, _, _)
CloneBindings(SrcLayout, VarType, r, acc) ==
    IF r > SrcLayout.NumCbvSrvUav[VarType] THEN acc
    ELSE LET SrcRes == SrcLayout.SrvCbvUav[VarType][r]
             valid == IsValidSampler(SrcRes)
             SamplerId == IF valid THEN CloneSamplerId(acc.CurrSampler, VarType)
                          ELSE InvalidSamplerId
             a == IF valid
                  THEN [acc EXCEPT
                          !.Samplers[VarType] =
                              Append(@, GetSampler(SrcLayout, VarType, SrcRes.SamplerId)),
                          !.CurrSampler[VarType] = @ + 1]
                  ELSE acc
             b == [a EXCEPT !.SrvCbvUav[VarType] =
                                Append(@, [SrcRes EXCEPT !.SamplerId = SamplerId])]
         IN CloneBindings(SrcLayout, VarType, r + 1, b)

RECURSIVE CloneVarTypes(_, _, _, _)
CloneVarTypes(SrcLayout, AllowedTypeBits, t, acc) ==
    IF t > Len(VarTypeOrder) THEN acc
    ELSE LET VarType == VarTypeOrder[t]
         IN IF ~IsAllowedType(VarType, AllowedTypeBits)
            THEN CloneVarTypes(SrcLayout, AllowedTypeBits, t + 1, acc)
            ELSE CloneVarTypes(SrcLayout, AllowedTypeBits, t + 1,
                               CloneBindings(SrcLayout, VarType, 1, acc))

\* ShaderResourceLayoutD3D12(Owner, SrcLayout, Allocator, AllowedVarTypes, ..., ResourceCache)
CloneLayout(SrcLayout, AllowedVarTypes) ==
    LET acc == CloneVarTypes(SrcLayout, AllowedVarTypes, 1,
                   [SrvCbvUav |-> [v \in VarTypes |-> << >>],
                    Samplers |-> [v \in VarTypes |-> << >>],
                    CurrSampler |-> ZeroCounts])
    IN [NumCbvSrvUav |-> [v \in VarTypes |->
                            IF IsAllowedType(v, AllowedVarTypes)
                            THEN SrcLayout.NumCbvSrvUav[v] ELSE 0],
        NumSamplers |-> [v \in VarTypes |->
                            IF IsAllowedType(v, AllowedVarTypes)
                            THEN SrcLayout.NumSamplers[v] ELSE 0],
        SrvCbvUav |-> acc.SrvCbvUav, Samplers |-> acc.Samplers,
        VariableHash |-> NoHash]

----------------------------------------------------------------------------
(* Binding a resource into the cache *)

\* What a call works on: ctx.c is the cache of the layout, ctx.log the messages
\* logged so far, ctx.copies the number of CopyDescriptorsSimple calls,
\* ctx.lookups the number of IResourceMapping::GetResource calls, ctx.fatal
\* is set when a fatal check fails.
NewCtx(c) == [c |-> c, log |-> << >>, copies |-> 0, lookups |-> 0, fatal |-> FALSE]

Log(ctx, msg) == [ctx EXCEPT !.log = Append(@, msg)]
Fatal(ctx) == [ctx EXCEPT !.fatal = TRUE]

\* GetShaderVisibleTableCPUDescriptorHandle(RootIndex, Offset).ptr != 0: a static
\* resource cache has no shader visible space; in the cache of a binding object
\* root views and the tables of dynamic variables have none either.
ShaderVisible(env, RootIndex) ==
    /\ env.which \in {"srb", "srb2"}
    /\ env.rs[RootIndex + 1].Kind = "Table"
    /\ env.rs[RootIndex + 1].VarType # "Dynamic"

CopyDescriptorsSimple(ctx, env, RootIndex) ==
    IF ShaderVisible(env, RootIndex) THEN [ctx EXCEPT !.copies = @ + 1] ELSE ctx

\* Mutant: binding the object the slot holds counts as rebinding
IsRebindErrorSameObject(VarType, Dst, pObj) == VarType # "Dynamic" /\ Dst.pObject # Null

\* The test made before a slot is overwritten
IsRebindError(VarType, Dst, pObj) ==
    VarType # "Dynamic" /\ Dst.pObject # Null /\ Dst.pObject # pObj

\* Mutant: the variable type is not looked at
IsUnbindErrorAnyType(VarType, Dst) == Dst.pObject # Null

\* The test made before a slot is cleared
IsUnbindError(VarType, Dst) == Dst.pObject # Null /\ VarType # "Dynamic"

\* SRV_CBV_UAV::CacheCB
CacheCB(ctx, env, b, ArrayInd, pBuffer) ==
    LET DstRes == GetResource(ctx.c, b.RootIndex, b.OffsetFromTableStart + ArrayInd)
    IN IF ObjDesc[pBuffer].Class = "Buffer"
       THEN IF ObjDesc[pBuffer].Uniform
            THEN LET c1 == IF IsRebindError(b.Attribs.VarType, DstRes, pBuffer)
                           THEN Log(ctx, "AlreadyBound") ELSE ctx
                     c2 == [c1 EXCEPT !.c = SetResource(@, b.RootIndex,
                                b.OffsetFromTableStart + ArrayInd,
                                [pObject |-> pBuffer, Type |-> b.ResType,
                                 CPUDescriptorHandle |-> GetCPUDescriptorHandle(pBuffer)])]
                 IN CopyDescriptorsSimple(c2, env, b.RootIndex)
            ELSE Log(ctx, "NoUniformBufferFlag")
       ELSE Log(ctx, "IncorrectResourceType")

\* Sampler::CacheSampler
CacheSampler(ctx, env, sam, pTexView, ArrayIndex) ==
    IF ~InCache(ctx.c, sam.RootIndex, sam.OffsetFromTableStart + ArrayIndex)
    THEN Fatal(ctx)
    ELSE
    LET DstSam == GetResource(ctx.c, sam.RootIndex, sam.OffsetFromTableStart + ArrayIndex)
    IN IF pTexView # Null
       THEN LET pSampler == ObjDesc[pTexView].Sampler
            IN IF pSampler # Null
               THEN LET c1 == IF IsRebindError(sam.Attribs.VarType, DstSam, pSampler)
                              THEN Log(ctx, "SamplerAlreadyBound") ELSE ctx
                        c2 == [c1 EXCEPT !.c = SetResource(@, sam.RootIndex,
                                   sam.OffsetFromTableStart + ArrayIndex,
                                   [pObject |-> pSampler, Type |-> "Sampler",
                                    CPUDescriptorHandle |-> GetCPUDescriptorHandle(pSampler)])]
                    IN CopyDescriptorsSimple(c2, env, sam.RootIndex)
               ELSE Log(ctx, "SamplerNotSet")
       ELSE [ctx EXCEPT !.c = SetResource(@, sam.RootIndex,
                                  sam.OffsetFromTableStart + ArrayIndex, NullResource)]

\* Mutant: the sampler is taken to have one element per element of the texture
SamplerArrIndOfTexture(sam, ArrayIndex) == ArrayIndex

\* The element of the sampler that belongs to element ArrayIndex of the texture
SamplerArrInd(sam, ArrayIndex) == IF sam.Attribs.BindCount > 1 THEN ArrayIndex ELSE 0

\* The procedure CacheResourceView calls after a texture SRV was cached
BindSamplerProc(ctx, env, b, ArrayIndex, pTexView) ==
    IF b.ResType = "TexSRV" /\ IsValidSampler(b)
    THEN LET sam == GetAssignedSampler(env.L, b)
         IN CacheSampler(ctx, env, sam, pTexView, SamplerArrInd(sam, ArrayIndex))
    ELSE ctx

\* Mutant: the view type is never checked
ViewTypeNeverRejected(env, pView, dbgExpectedViewType) == FALSE

\* The view type check, compiled only with VERIFY_SHADER_BINDINGS
ViewTypeRejected(env, pView, dbgExpectedViewType) ==
    env.build.VERIFY_SHADER_BINDINGS /\ ObjDesc[pView].ViewType # dbgExpectedViewType

\* Mutant: the type of the slot is written before the object given is looked at
CacheResourceViewTypeFirst(ctx, env, b, ArrayIndex, pView, ViewClass, dbgExpectedViewType) ==
    LET DstRes == GetResource(ctx.c, b.RootIndex, b.OffsetFromTableStart + ArrayIndex)
        typed == [ctx EXCEPT !.c = SetResource(@, b.RootIndex,
                                       b.OffsetFromTableStart + ArrayIndex,
                                       [DstRes EXCEPT !.Type = b.ResType])]
    IN IF ObjDesc[pView].Class = ViewClass /\ ~ViewTypeRejected(env, pView, dbgExpectedViewType)
       THEN BindSamplerProc(
                [typed EXCEPT !.c = SetResource(@, b.RootIndex,
                                        b.OffsetFromTableStart + ArrayIndex,
                                        [pObject |-> pView, Type |-> b.ResType,
                                         CPUDescriptorHandle |-> GetCPUDescriptorHandle(pView)])],
                env, b, ArrayIndex, pView)
       ELSE Log(typed, "IncorrectResourceType")

\* SRV_CBV_UAV::CacheResourceView<TResourceViewType>
CacheResourceView(ctx, env, b, ArrayIndex, pView, ViewClass, dbgExpectedViewType) ==
    LET DstRes == GetResource(ctx.c, b.RootIndex, b.OffsetFromTableStart + ArrayIndex)
    IN IF ObjDesc[pView].Class = ViewClass
       THEN IF ViewTypeRejected(env, pView, dbgExpectedViewType)
            THEN Log(ctx, "IncorrectViewType")
            ELSE LET c1 == IF IsRebindError(b.Attribs.VarType, DstRes, pView)
                           THEN Log(ctx, "AlreadyBound") ELSE ctx
                     c2 == [c1 EXCEPT !.c = SetResource(@, b.RootIndex,
                                b.OffsetFromTableStart + ArrayIndex,
                                [pObject |-> pView, Type |-> b.ResType,
                                 CPUDescriptorHandle |-> GetCPUDescriptorHandle(pView)])]
                     c3 == CopyDescriptorsSimple(c2, env, b.RootIndex)
                 IN BindSamplerProc(c3, env, b, ArrayIndex, pView)
       ELSE Log(ctx, "IncorrectResourceType")

\* The unbinding branch of BindResource
UnbindResource(ctx, env, b, ArrayIndex) ==
    LET DstRes == GetResource(ctx.c, b.RootIndex, b.OffsetFromTableStart + ArrayIndex)
        c1 == IF IsUnbindError(b.Attribs.VarType, DstRes) THEN Log(ctx, "Unbound") ELSE ctx
        c2 == [c1 EXCEPT !.c = SetResource(@, b.RootIndex,
                                   b.OffsetFromTableStart + ArrayIndex, NullResource)]
    IN IF IsValidSampler(b)
       THEN LET sam == GetAssignedSampler(env.L, b)
            IN CacheSampler(c2, env, sam, Null, SamplerArrInd(sam, ArrayIndex))
       ELSE c2

\* SRV_CBV_UAV::BindResource
BindResource(ctx, env, b, ArrayIndex, pObj) ==
    IF ~InCache(ctx.c, b.RootIndex, b.OffsetFromTableStart + ArrayIndex)
    THEN Fatal(ctx)
    ELSE IF pObj # Null
    THEN CASE b.ResType = "CBV" -> CacheCB(ctx, env, b, ArrayIndex, pObj)
           [] b.ResType = "TexSRV" ->
                CacheResourceView(ctx, env, b, ArrayIndex, pObj, "TextureView", "SRV")
           [] b.ResType = "TexUAV" ->
                CacheResourceView(ctx, env, b, ArrayIndex, pObj, "TextureView", "UAV")
           [] b.ResType = "BufSRV" ->
                CacheResourceView(ctx, env, b, ArrayIndex, pObj, "BufferView", "SRV")
           [] b.ResType = "BufUAV" ->
                CacheResourceView(ctx, env, b, ArrayIndex, pObj, "BufferView", "UAV")
    ELSE UnbindResource(ctx, env, b, ArrayIndex)

\* Mutant: a slot in a table of the cache counts as bound whatever it holds
IsBoundInRange(c, b, ArrayIndex) ==
    /\ b.RootIndex < GetNumRootTables(c)
    /\ b.OffsetFromTableStart + ArrayIndex < GetSize(GetRootTable(c, b.RootIndex))

\* SRV_CBV_UAV::IsBound
IsBound(c, b, ArrayIndex) ==
    /\ b.RootIndex < GetNumRootTables(c)
    /\ b.OffsetFromTableStart + ArrayIndex < GetSize(GetRootTable(c, b.RootIndex))
    /\ GetResource(c, b.RootIndex, b.OffsetFromTableStart + ArrayIndex).pObject # Null

----------------------------------------------------------------------------
(* Resource mappings a caller can pass to BindResources *)

CBNames == {"cbS", "cbM", "dupM", "dupX"}
TexNames == {"texM", "texS", "texD", "texFix"}
ArrayInds == 0..(Max(MaxArraySize, ScenarioBindCount) - 1)

\* Every name of every shader, each with an object of its category
MapComplete1 ==
    [n \in Names |-> [i \in ArrayInds |->
        CASE n \in CBNames -> "ub1"
          [] n \in TexNames -> IF i = 0 THEN "tv1" ELSE "tv2"
          [] n = "tuavM" -> "tvUAV"
          [] n = "uavD" -> "bvUAV"
          [] n = "bsrvD" -> "bvSRV"
          [] OTHER -> Null]]

\* The same with other objects; some texture views carry no sampler
MapComplete2 ==
    [n \in Names |-> [i \in ArrayInds |->
        CASE n \in CBNames -> "ub2"
          [] n \in TexNames -> IF i = 0 THEN "tv2" ELSE "tvNS"
          [] n = "tuavM" -> "tvUAV"
          [] n = "uavD" -> "bvUAV"
          [] n = "bsrvD" -> "bvSRV"
          [] OTHER -> Null]]

\* Some names and some array elements are missing
MapPartial ==
    [n \in Names |-> [i \in ArrayInds |->
        CASE n = "texM" -> IF i = 0 THEN Null ELSE "tv1"
          [] n = "texS" -> IF i = 0 THEN "tv1" ELSE Null
          [] n = "tuavM" -> "tvUAV"
          [] n = "dupM" -> "ub2"
          [] OTHER -> Null]]

\* Every name with an object of another category
MapWrong ==
    [n \in Names |-> [i \in ArrayInds |->
        CASE n \in CBNames -> "vb"
          [] n \in TexNames -> "bvSRV"
          [] n = "tuavM" -> "tv1"
          [] n = "uavD" -> "bvSRV"
          [] n = "bsrvD" -> "ub1"
          [] OTHER -> Null]]

Mappings == << MapComplete1, MapComplete2, MapPartial, MapWrong >>

\* 0 stands for a null pResourceMapping
MappingIds == 0..Len(Mappings)

BindFlags == SUBSET {"RESET_BINDINGS", "UPDATE_UNRESOLVED", "ALL_RESOLVED"}

\* IResourceMapping::GetResource(Name, &pObj, ArrInd)
MappingGetResource(mapping, Name, ArrInd) == mapping[Name][ArrInd]

----------------------------------------------------------------------------
(* BindResources *)

\* Mutant: the pass ends whenever the flag is set
StopsPassOnFlag(Flags, c, Res, ArrInd) == "UPDATE_UNRESOLVED" \in Flags

\* The test that ends the pass
StopsPass(Flags, c, Res, ArrInd) == "UPDATE_UNRESOLVED" \in Flags /\ IsBound(c, Res, ArrInd)

\* Mutant: the pass returns at a slot the mapping has no object for
BindOneSlotStopOnMissing(ctx, env, Res, ArrInd, Flags, mapping) ==
    LET c1 == IF "RESET_BINDINGS" \in Flags
              THEN BindResource(ctx, env, Res, ArrInd, Null) ELSE ctx
    IN IF c1.fatal THEN [ctx |-> c1, stop |-> TRUE]
       ELSE IF StopsPass(Flags, c1.c, Res, ArrInd) THEN [ctx |-> c1, stop |-> TRUE]
       ELSE LET pObj == MappingGetResource(mapping, Res.Attribs.Name, ArrInd)
                c2 == [c1 EXCEPT !.lookups = @ + 1]
                c3 == IF pObj # Null
                      THEN BindResource(c2, env, Res, ArrInd, pObj)
                      ELSE IF "ALL_RESOLVED" \in Flags /\ ~IsBound(c2.c, Res, ArrInd)
                           THEN Log(c2, "NotFoundInMapping")
                           ELSE c2
            IN [ctx |-> c3, stop |-> c3.fatal \/ pObj = Null]

\* Mutant: a slot is reset only when the mapping has an object for it
BindOneSlotResetOnFound(ctx, env, Res, ArrInd, Flags, mapping) ==
    LET c1 == IF /\ "RESET_BINDINGS" \in Flags
                 /\ MappingGetResource(mapping, Res.Attribs.Name, ArrInd) # Null
              THEN BindResource(ctx, env, Res, ArrInd, Null) ELSE ctx
    IN IF c1.fatal THEN [ctx |-> c1, stop |-> TRUE]
       ELSE IF StopsPass(Flags, c1.c, Res, ArrInd) THEN [ctx |-> c1, stop |-> TRUE]
       ELSE LET pObj == MappingGetResource(mapping, Res.Attribs.Name, ArrInd)
                c2 == [c1 EXCEPT !.lookups = @ + 1]
                c3 == IF pObj # Null
                      THEN BindResource(c2, env, Res, ArrInd, pObj)
                      ELSE IF "ALL_RESOLVED" \in Flags /\ ~IsBound(c2.c, Res, ArrInd)
                           THEN Log(c2, "NotFoundInMapping")
                           ELSE c2
            IN [ctx |-> c3, stop |-> c3.fatal]

\* Mutant: a name the mapping does not have is reported whatever the slot holds
BindOneSlotLogAnyMissing(ctx, env, Res, ArrInd, Flags, mapping) ==
    LET c1 == IF "RESET_BINDINGS" \in Flags
              THEN BindResource(ctx, env, Res, ArrInd, Null) ELSE ctx
    IN IF c1.fatal THEN [ctx |-> c1, stop |-> TRUE]
       ELSE IF StopsPass(Flags, c1.c, Res, ArrInd) THEN [ctx |-> c1, stop |-> TRUE]
       ELSE LET pObj == MappingGetResource(mapping, Res.Attribs.Name, ArrInd)
                c2 == [c1 EXCEPT !.lookups = @ + 1]
                c3 == IF pObj # Null
                      THEN BindResource(c2, env, Res, ArrInd, pObj)
                      ELSE IF "ALL_RESOLVED" \in Flags
                           THEN Log(c2, "NotFoundInMapping")
                           ELSE c2
            IN [ctx |-> c3, stop |-> c3.fatal]

\* Mutant: a slot that is bound is skipped and the pass goes on
BindOneSlotSkip(ctx, env, Res, ArrInd, Flags, mapping) ==
    LET c1 == IF "RESET_BINDINGS" \in Flags
              THEN BindResource(ctx, env, Res, ArrInd, Null) ELSE ctx
    IN IF c1.fatal THEN [ctx |-> c1, stop |-> TRUE]
       ELSE IF "UPDATE_UNRESOLVED" \in Flags /\ IsBound(c1.c, Res, ArrInd)
            THEN [ctx |-> c1, stop |-> FALSE]
       ELSE LET pObj == MappingGetResource(mapping, Res.Attribs.Name, ArrInd)
                c2 == [c1 EXCEPT !.lookups = @ + 1]
                c3 == IF pObj # Null
                      THEN BindResource(c2, env, Res, ArrInd, pObj)
                      ELSE IF "ALL_RESOLVED" \in Flags /\ ~IsBound(c2.c, Res, ArrInd)
                           THEN Log(c2, "NotFoundInMapping")
                           ELSE c2
            IN [ctx |-> c3, stop |-> c3.fatal]

\* The body of the inner loop; stop tells the caller to return
BindOneSlot(ctx, env, Res, ArrInd, Flags, mapping) ==
    LET c1 == IF "RESET_BINDINGS" \in Flags
              THEN BindResource(ctx, env, Res, ArrInd, Null) ELSE ctx
    IN IF c1.fatal THEN [ctx |-> c1, stop |-> TRUE]
       ELSE IF StopsPass(Flags, c1.c, Res, ArrInd) THEN [ctx |-> c1, stop |-> TRUE]
       ELSE LET pObj == MappingGetResource(mapping, Res.Attribs.Name, ArrInd)
                c2 == [c1 EXCEPT !.lookups = @ + 1]
                c3 == IF pObj # Null
                      THEN BindResource(c2, env, Res, ArrInd, pObj)
                      ELSE IF "ALL_RESOLVED" \in Flags /\ ~IsBound(c2.c, Res, ArrInd)
                           THEN Log(c2, "NotFoundInMapping")
                           ELSE c2
            IN [ctx |-> c3, stop |-> c3.fatal]

RECURSIVE BindResourcesLoop(_, _, _, _, _, _, _)
BindResourcesLoop(ctx, env, all, r, ArrInd, Flags, mapping) ==
    IF r > Len(all) THEN ctx
    ELSE IF ArrInd >= all[r].Attribs.BindCount
         THEN BindResourcesLoop(ctx, env, all, r + 1, 0, Flags, mapping)
         ELSE LET one == BindOneSlot(ctx, env, all[r], ArrInd, Flags, mapping)
              IN IF one.stop THEN one.ctx
                 ELSE BindResourcesLoop(one.ctx, env, all, r, ArrInd + 1, Flags, mapping)

\* ShaderResourceLayoutD3D12::BindResources
BindResources(ctx, env, mapId, Flags) ==
    IF mapId = 0
    THEN Log(ctx, "NullMapping")
    ELSE BindResourcesLoop(ctx, env, AllSrvCbvUav(env.L), 1, 0, Flags, Mappings[mapId])

----------------------------------------------------------------------------
(* GetShaderVariable *)

\* The linear search: the first binding with the name, 0 when there is none
RECURSIVE FindByName(_, _, _)
FindByName(all, Name, r) ==
    IF r > Len(all) THEN 0
    ELSE IF all[r].Attribs.Name = Name THEN r
    ELSE FindByName(all, Name, r + 1)

\* ShaderResourceLayoutD3D12::GetShaderVariable: pVar is the place of the
\* binding returned in the array of all bindings, 0 for a null pointer
GetShaderVariable(L, Name, useHash) ==
    LET pVar == IF useHash THEN L.VariableHash[Name]
                ELSE FindByName(AllSrvCbvUav(L), Name, 1)
    IN [pVar |-> pVar,
        log |-> IF pVar = 0 THEN << "VariableNotFound" >> ELSE << >>]

----------------------------------------------------------------------------
(* CopyStaticResourceDesriptorHandles *)

\* Mutant: every destination slot is written
NeedsCopyAlways(Dst, Src) == TRUE

\* The destination slot is written when it does not hold the object of the source
NeedsCopy(Dst, Src) == Dst.pObject # Src.pObject

\* Mutant: no destination slot counts as assigned
IsAssignedNever(Dst) == FALSE

\* A destination slot that is written must be empty
IsAssigned(Dst) == Dst.pObject # Null

\* One slot of a resource or of a sampler; needVisible is the check that the
\* destination has shader visible space
CopySlot(ctx, env, src, SrcRoot, SrcOffset, DstRoot, DstOffset, isSampler) ==
    IF ~InCache(src, SrcRoot, SrcOffset) \/ ~InCache(ctx.c, DstRoot, DstOffset)
    THEN Fatal(ctx)
    ELSE
    LET SrcRes == GetResource(src, SrcRoot, SrcOffset)
        DstRes == GetResource(ctx.c, DstRoot, DstOffset)
        c1 == IF SrcRes.pObject = Null
              THEN Log(ctx, IF isSampler THEN "NoStaticSampler" ELSE "NoStaticResource")
              ELSE ctx
    IN IF NeedsCopy(DstRes, SrcRes)
       THEN IF IsAssigned(DstRes) THEN Fatal(c1)
            ELSE LET c2 == [c1 EXCEPT !.c = SetResource(@, DstRoot, DstOffset,
                                [pObject |-> SrcRes.pObject, Type |-> SrcRes.Type,
                                 CPUDescriptorHandle |-> SrcRes.CPUDescriptorHandle])]
                 IN IF ShaderVisible(env, DstRoot)
                    THEN CopyDescriptorsSimple(c2, env, DstRoot)
                    ELSE IF isSampler \/ SrcRes.Type # "CBV" THEN Fatal(c2) ELSE c2
       ELSE IF DstRes.Type = SrcRes.Type
               /\ DstRes.CPUDescriptorHandle = SrcRes.CPUDescriptorHandle
            THEN c1 ELSE Fatal(c1)

\* The loop over the elements of one static resource
RECURSIVE CopyResElems(_, _, _, _, _)
CopyResElems(ctx, env, src, res, ArrInd) ==
    IF ctx.fatal \/ ArrInd >= res.Attribs.BindCount THEN ctx
    ELSE CopyResElems(
            CopySlot(ctx, env, src, GetDescriptorRangeType(res.ResType),
                     res.Attribs.BindPoint + ArrInd,
                     res.RootIndex, res.OffsetFromTableStart + ArrInd, FALSE),
            env, src, res, ArrInd + 1)

\* Mutant: the samplers of the static textures are not copied
CopySamElemsNone(ctx, env, src, SamInfo, ArrInd) == ctx

\* The loop over the elements of the sampler of one static texture
RECURSIVE CopySamElems(_, _, _, _, _)
CopySamElems(ctx, env, src, SamInfo, ArrInd) ==
    IF ctx.fatal \/ ArrInd >= SamInfo.Attribs.BindCount THEN ctx
    ELSE CopySamElems(
            CopySlot(ctx, env, src, D3D12_DESCRIPTOR_RANGE_TYPE_SAMPLER,
                     SamInfo.Attribs.BindPoint + ArrInd,
                     SamInfo.RootIndex, SamInfo.OffsetFromTableStart + ArrInd, TRUE),
            env, src, SamInfo, ArrInd + 1)

RECURSIVE CopyStaticLoop(_, _, _, _)
CopyStaticLoop(ctx, env, src, r) ==
    IF ctx.fatal \/ r > env.L.NumCbvSrvUav["Static"] THEN ctx
    ELSE LET res == env.L.SrvCbvUav["Static"][r]
             c1 == CopyResElems(ctx, env, src, res, 0)
             c2 == IF ~c1.fatal /\ IsValidSampler(res)
                   THEN CopySamElems(c1, env, src, GetAssignedSampler(env.L, res), 0)
                   ELSE c1
         IN CopyStaticLoop(c2, env, src, r + 1)

\* m_pResourceCache of a layout: Initialize stores the cache it is given, which
\* is null for the layout a pipeline state initializes with its root signature;
\* the clone constructor stores the address of the cache of the binding object
HasResourceCache(which) == which # "ref"

\* The cache a layout points to, no table when it points to none
ResourceCacheOf(which) == IF HasResourceCache(which) THEN cache[which] ELSE << >>

\* Mutant: the cache of the source layout is not looked at before the loop
CopyStaticNoSrcCheck(ctx, env, SrcLayout) ==
    IF ~HasResourceCache(env.which) THEN Log(ctx, "NoResourceCache")
    ELSE CopyStaticLoop(ctx, env, ResourceCacheOf(SrcLayout), 1)

\* ShaderResourceLayoutD3D12::CopyStaticResourceDesriptorHandles(SrcLayout)
CopyStaticResourceDesriptorHandles(ctx, env, SrcLayout) ==
    IF ~HasResourceCache(env.which) THEN Log(ctx, "NoResourceCache")
    ELSE IF ~HasResourceCache(SrcLayout) THEN Log(ctx, "NoSrcResourceCache")
    ELSE CopyStaticLoop(ctx, env, ResourceCacheOf(SrcLayout), 1)

----------------------------------------------------------------------------
(* The state machine *)

AllVarTypes == {"Static", "Mutable", "Dynamic"}

NoOp ==
    [op |-> "None", layout |-> "-", r |-> 0, idx |-> 0, obj |-> Null, flags |-> {},
     map |-> 0, name |-> "-", ret |-> 0, log |-> << >>, copies |-> 0, lookups |-> 0,
     again |-> FALSE, bound |-> FALSE, order |-> << >>, args |-> << >>,
     outOfRange |-> FALSE]

\* Capacity of m_pBoundRenderTargets
MaxRenderTargets == 2

\* Capacity of m_VertexStreams
MaxBufferSlots == 2

\* Capacity of m_Viewports and m_ScissorRects
MaxViewports == 2

\* VertexStreamInfo{}
EmptyStream == [pBuffer |-> Null, Offset |-> 0]

\* Viewport() and Rect()
DefaultViewport == [Width |-> 0, Height |-> 0]
DefaultRect == [right |-> 0, bottom |-> 0]

\* The member initializers of the context
NewDeviceContext ==
    [m_pSwapChain |-> Null,
     m_VertexStreams |-> [s \in 0..(MaxBufferSlots - 1) |-> EmptyStream],
     m_NumVertexStreams |-> 0,
     m_pIndexBuffer |-> Null,
     m_IndexDataStartOffset |-> 0,
     m_StencilRef |-> 0,
     m_BlendFactors |-> << -1, -1, -1, -1 >>,
     m_Viewports |-> [vp \in 0..(MaxViewports - 1) |-> DefaultViewport],
     m_NumViewports |-> 0,
     m_ScissorRects |-> [sr \in 0..(MaxViewports - 1) |-> DefaultRect],
     m_NumScissorRects |-> 0,
     m_pPipelineState |-> Null,
     m_pBoundRenderTargets |-> [rt \in 0..(MaxRenderTargets - 1) |-> Null],
     m_NumBoundRenderTargets |-> 0,
     m_FramebufferWidth |-> 0,
     m_FramebufferHeight |-> 0,
     m_FramebufferSlices |-> 0,
     m_IsDefaultFramebufferBound |-> FALSE,
     m_pBoundDepthStencil |-> Null]

\* The state before any layout is initialized
StartWith(shaders, hashBuilds, verifyBuilds, ops) ==
    /\ shader \in shaders
    /\ build \in [USE_VARIABLE_HASH_MAP : hashBuilds, VERIFY_SHADER_BINDINGS : verifyBuilds]
    /\ layouts = [w \in {"stat", "ref", "srb", "srb2"} |-> EmptyLayout]
    /\ built = {}
    /\ srbAllowed = {}
    /\ rootSig = << >>
    /\ cache = [w \in {"stat", "srb", "srb2"} |-> << >>]
    /\ solo = [w \in {"srb", "srb2"} |-> << >>]
    /\ lastOp \in ops
    /\ tick = 0
    /\ aborted = FALSE
    /\ deviceContext = NewDeviceContext

Start(shaders, hashBuilds, verifyBuilds) == StartWith(shaders, hashBuilds, verifyBuilds, {NoOp})

Env(which) == [which |-> which, rs |-> rootSig, build |-> build, L |-> layouts[which]]

\* The layout and the cache after Initialize without a root signature
InitializedStatic(res, allowed) ==
    /\ layouts' = [layouts EXCEPT !["stat"] = res.layout]
    /\ cache' = [cache EXCEPT !["stat"] = InitializeCache(res.TblSizes)]
    /\ lastOp' = [NoOp EXCEPT !.op = "Initialize", !.layout = "stat",
                              !.lookups = res.allocs, !.order = res.order,
                              !.args = << allowed >>]

\* The shader initializes its layout on its static resource cache
InitializeStatic(allowed) ==
    /\ ~aborted /\ "stat" \notin built
    /\ InitializedStatic(InitializeLayout(shader, allowed, << >>, FALSE,
                                          build.USE_VARIABLE_HASH_MAP), allowed)
    /\ built' = built \cup {"stat"}
    /\ tick' = 1 - tick
    /\ UNCHANGED <<deviceContext, shader, build, srbAllowed, rootSig, solo, aborted>>

\* The layout and the root signature after Initialize with a root signature
InitializedRef(res, allowed) ==
    /\ layouts' = [layouts EXCEPT !["ref"] = res.layout]
    /\ rootSig' = res.rs
    /\ lastOp' = [NoOp EXCEPT !.op = "Initialize", !.layout = "ref",
                              !.lookups = res.allocs, !.order = res.order,
                              !.args = << allowed >>]

\* The pipeline state initializes its layout with its root signature
InitializeRef(allowed) ==
    /\ ~aborted /\ "ref" \notin built
    /\ InitializedRef(InitializeLayout(shader, allowed, rootSig, TRUE,
                                       build.USE_VARIABLE_HASH_MAP), allowed)
    /\ built' = built \cup {"ref"}
    /\ tick' = 1 - tick
    /\ UNCHANGED <<deviceContext, shader, build, srbAllowed, cache, solo, aborted>>

\* A shader resource binding object clones the layout of the pipeline state on
\* its own cache, which the root signature has sized
CloneSRB(allowed) ==
    /\ ~aborted /\ "ref" \in built /\ "srb" \notin built
    /\ layouts' = [layouts EXCEPT !["srb"] = CloneLayout(layouts["ref"], allowed)]
    /\ cache' = [cache EXCEPT !["srb"] = InitResourceCache(rootSig)]
    /\ solo' = [solo EXCEPT !["srb"] = InitResourceCache(rootSig)]
    /\ srbAllowed' = allowed
    /\ built' = built \cup {"srb"}
    /\ lastOp' = [NoOp EXCEPT !.op = "Clone", !.layout = "srb"]
    /\ tick' = 1 - tick
    /\ UNCHANGED <<deviceContext, shader, build, rootSig, aborted>>

\* The layouts that hold a resource cache
Bindable == built \cap {"stat", "srb"}

\* Mutant: a call that ends leaves the layout it was made on without bindings
DoneClearingLayout(which, ctx, op) ==
    /\ cache' = [cache EXCEPT ![which] = ctx.c]
    /\ aborted' = ctx.fatal
    /\ lastOp' = [op EXCEPT !.layout = which, !.log = ctx.log, !.copies = ctx.copies,
                            !.lookups = ctx.lookups]
    /\ tick' = 1 - tick
    /\ layouts' = [layouts EXCEPT ![which] = EmptyLayout]
    /\ UNCHANGED <<deviceContext, shader, build, built, srbAllowed, rootSig, solo>>

\* The effect of a call on the cache of its layout
Done(which, ctx, op) ==
    /\ cache' = [cache EXCEPT ![which] = ctx.c]
    /\ aborted' = ctx.fatal
    /\ lastOp' = [op EXCEPT !.layout = which, !.log = ctx.log, !.copies = ctx.copies,
                            !.lookups = ctx.lookups]
    /\ tick' = 1 - tick
    /\ UNCHANGED <<deviceContext, shader, build, layouts, built, srbAllowed, rootSig, solo>>

DoBindResource(which, r, ArrayIndex, pObj) ==
    /\ ~aborted /\ which \in Bindable
    /\ r \in 1..Len(AllSrvCbvUav(layouts[which]))
    /\ ArrayIndex < AllSrvCbvUav(layouts[which])[r].Attribs.BindCount
    /\ Done(which,
            BindResource(NewCtx(cache[which]), Env(which),
                         AllSrvCbvUav(layouts[which])[r], ArrayIndex, pObj),
            [NoOp EXCEPT !.op = "BindResource", !.r = r, !.idx = ArrayIndex, !.obj = pObj])

DoBindResources(which, mapId, Flags) ==
    /\ ~aborted /\ which \in Bindable
    /\ Done(which,
            BindResources(NewCtx(cache[which]), Env(which), mapId, Flags),
            [NoOp EXCEPT !.op = "BindResources", !.map = mapId, !.flags = Flags])

DoGetShaderVariable(which, Name) ==
    /\ ~aborted /\ which \in built
    /\ LET res == GetShaderVariable(layouts[which], Name, build.USE_VARIABLE_HASH_MAP)
       IN lastOp' = [NoOp EXCEPT !.op = "GetShaderVariable", !.layout = which,
                                 !.name = Name, !.ret = res.pVar, !.log = res.log]
    /\ tick' = 1 - tick
    /\ UNCHANGED <<deviceContext, shader, build, layouts, built, srbAllowed, rootSig, cache, solo, aborted>>

\* The static resources of the shader are copied into the cache of the binding object
DoCopyStatic ==
    /\ ~aborted /\ {"stat", "srb"} \subseteq built
    /\ Done("srb",
            CopyStaticResourceDesriptorHandles(NewCtx(cache["srb"]), Env("srb"), "stat"),
            [NoOp EXCEPT !.op = "CopyStatic", !.again = (lastOp.op = "CopyStatic")])

\* The effect of a copy on the cache of the destination layout, when it has one
Copied(dst, ctx, op) ==
    /\ cache' = IF HasResourceCache(dst) THEN [cache EXCEPT ![dst] = ctx.c] ELSE cache
    /\ aborted' = ctx.fatal
    /\ lastOp' = [op EXCEPT !.layout = dst, !.log = ctx.log, !.copies = ctx.copies]
    /\ tick' = 1 - tick
    /\ UNCHANGED <<deviceContext, shader, build, layouts, built, srbAllowed, rootSig, solo>>

\* The layouts a copy of the static resources is called on and given
CopyPairs == {<< "srb", "stat" >>, << "ref", "stat" >>, << "srb", "ref" >>}

\* The static resources of the layout src are copied into the cache of the layout dst
DoCopyStaticInto(dst, src) ==
    /\ ~aborted /\ {dst, src} \subseteq built
    /\ Copied(dst,
              CopyStaticResourceDesriptorHandles(NewCtx(ResourceCacheOf(dst)), Env(dst), src),
              [NoOp EXCEPT !.op = "CopyStatic", !.name = src])

MaxBindings == 4

(* Binding single resources and copying the static ones *)
Init == Start(BindShaders, {FALSE}, BOOLEAN)

Next ==
    \/ InitializeStatic({"Static"})
    \/ InitializeRef(AllVarTypes)
    \/ CloneSRB(AllVarTypes)
    \/ \E which \in {"stat", "srb"}, r \in 1..MaxBindings, i \in ArrayInds,
          o \in Objects \cup {Null} : DoBindResource(which, r, i, o)
    \/ DoCopyStatic

Spec == Init /\ [][Next]_vars

(* Copying the static resources between layouts with and without a cache *)
CopyShaders == {ShaderCbTex, ShaderStatArr}
CopyObjects == {"tv1", "tv2", "ub1", Null}

InitCopy == Start(CopyShaders, {FALSE}, BOOLEAN)

NextCopy ==
    \/ InitializeStatic({"Static"})
    \/ InitializeRef(AllVarTypes)
    \/ CloneSRB(AllVarTypes)
    \/ \E which \in {"stat", "srb"}, r \in 1..MaxBindings, i \in ArrayInds,
          o \in CopyObjects : DoBindResource(which, r, i, o)
    \/ \E pair \in CopyPairs : DoCopyStaticInto(pair[1], pair[2])

SpecCopy == InitCopy /\ [][NextCopy]_vars

(* Binding all resources of a layout from a resource mapping *)
InitBindAll == Start(BindAllShaders, {FALSE}, BOOLEAN)

NextBindAll ==
    \/ InitializeStatic(AllVarTypes)
    \/ \E m \in MappingIds, f \in BindFlags : DoBindResources("stat", m, f)

SpecBindAll == InitBindAll /\ [][NextBindAll]_vars

\* A second binding object clones the layout; its cache is not initialized yet
CloneSRB2 ==
    /\ ~aborted /\ "ref" \in built /\ "srb2" \notin built
    /\ layouts' = [layouts EXCEPT !["srb2"] = CloneLayout(layouts["ref"], AllVarTypes)]
    /\ built' = built \cup {"srb2"}
    /\ lastOp' = [NoOp EXCEPT !.op = "Clone", !.layout = "srb2"]
    /\ tick' = 1 - tick
    /\ UNCHANGED <<deviceContext, shader, build, srbAllowed, rootSig, cache, solo, aborted>>

(* Construction of layouts and lookup of variables *)
InitLayout == Start(LayoutShaders, BOOLEAN, {TRUE})

NextLayout ==
    \/ \E allowed \in Filters : InitializeStatic(allowed)
    \/ \E allowed \in Filters : InitializeRef(allowed)
    \/ \E allowed \in Filters : CloneSRB(allowed)
    \/ CloneSRB2
    \/ \E which \in {"stat", "ref", "srb"}, n \in Names : DoGetShaderVariable(which, n)

SpecLayout == InitLayout /\ [][NextLayout]_vars

(* Two binding objects that clone the layout of one pipeline state *)

\* Mutant: the clone works on the cache of the first binding object
CacheOfShared(which) == "srb"

\* m_pResourceCache of a cloned layout: the cache given to its constructor
CacheOf(which) == which

\* The root signature initializes the cache of the second binding object
InitCacheSRB2 ==
    /\ ~aborted /\ "srb2" \in built /\ "cache2" \notin built
    /\ cache' = [cache EXCEPT !["srb2"] = InitResourceCache(rootSig)]
    /\ solo' = [solo EXCEPT !["srb2"] = InitResourceCache(rootSig)]
    /\ built' = built \cup {"cache2"}
    /\ lastOp' = [NoOp EXCEPT !.op = "InitResourceCache", !.layout = "srb2"]
    /\ tick' = 1 - tick
    /\ UNCHANGED <<deviceContext, shader, build, layouts, srbAllowed, rootSig, aborted>>

\* The clones whose cache is initialized
ReadyClones == (built \cap {"srb"}) \cup (IF "cache2" \in built THEN {"srb2"} ELSE {})

\* The effect of a call on a clone: on the cache the clone works on, and on the
\* cache the calls on this clone alone have made
DoneOnClone(which, ctx, alone, op) ==
    /\ cache' = [cache EXCEPT ![CacheOf(which)] = ctx.c]
    /\ solo' = [solo EXCEPT ![which] = alone.c]
    /\ aborted' = ctx.fatal
    /\ lastOp' = [op EXCEPT !.layout = which, !.log = ctx.log, !.copies = ctx.copies,
                            !.lookups = ctx.lookups]
    /\ tick' = 1 - tick
    /\ UNCHANGED <<deviceContext, shader, build, layouts, built, srbAllowed, rootSig>>

BindResourceOnClone(which, r, ArrayIndex, pObj) ==
    /\ ~aborted /\ which \in ReadyClones
    /\ r \in 1..Len(AllSrvCbvUav(layouts[which]))
    /\ ArrayIndex < AllSrvCbvUav(layouts[which])[r].Attribs.BindCount
    /\ DoneOnClone(which,
            BindResource(NewCtx(cache[CacheOf(which)]), Env(which),
                         AllSrvCbvUav(layouts[which])[r], ArrayIndex, pObj),
            BindResource(NewCtx(solo[which]), Env(which),
                         AllSrvCbvUav(layouts[which])[r], ArrayIndex, pObj),
            [NoOp EXCEPT !.op = "BindResource", !.r = r, !.idx = ArrayIndex, !.obj = pObj])

BindResourcesOnClone(which, mapId, Flags) ==
    /\ ~aborted /\ which \in ReadyClones
    /\ DoneOnClone(which,
            BindResources(NewCtx(cache[CacheOf(which)]), Env(which), mapId, Flags),
            BindResources(NewCtx(solo[which]), Env(which), mapId, Flags),
            [NoOp EXCEPT !.op = "BindResources", !.map = mapId, !.flags = Flags])

CloneShaders == {ShaderTexS, ShaderUav}

\* The objects, mappings and flags the calls on the clones are given
CloneObjects == {"tv1", "tv2", "tvUAV", "bvUAV", "ub1", Null}
CloneMappingIds == {m \in MappingIds : m = 0 \/ Mappings[m] \in {MapComplete1, MapComplete2}}
CloneFlags == {{}, {"RESET_BINDINGS"}, {"UPDATE_UNRESOLVED"}}

InitClones == Start(CloneShaders, {FALSE}, {TRUE})

NextClones ==
    \/ InitializeRef(AllVarTypes)
    \/ CloneSRB(AllVarTypes)
    \/ CloneSRB2
    \/ InitCacheSRB2
    \/ \E which \in {"srb", "srb2"}, r \in 1..MaxBindings, i \in ArrayInds,
          o \in CloneObjects : BindResourceOnClone(which, r, i, o)
    \/ \E which \in {"srb", "srb2"}, m \in CloneMappingIds, f \in CloneFlags :
          BindResourcesOnClone(which, m, f)

SpecClones == InitClones /\ [][NextClones]_vars

(* The scenario of the specification, in static mode *)

InitScenario == Start({ShaderScenario}, {FALSE}, BOOLEAN)

NextScenario ==
    \/ InitializeStatic(AllVarTypes)
    \/ \E m \in MappingIds, f \in BindFlags : DoBindResources("stat", m, f)

SpecScenario == InitScenario /\ [][NextScenario]_vars

(* Textures with static samplers *)

FixedObjects == {"tv1", "tvNS", Null}

InitFixed == Start({ShaderFixed}, {FALSE}, {TRUE})

NextFixed ==
    \/ InitializeStatic({"Static"})
    \/ InitializeRef(AllVarTypes)
    \/ CloneSRB(AllVarTypes)
    \/ \E which \in {"stat", "srb"}, r \in 1..MaxBindings, o \in FixedObjects :
          DoBindResource(which, r, 0, o)
    \/ \E which \in {"stat", "srb"}, m \in CloneMappingIds, f \in CloneFlags :
          DoBindResources(which, m, f)
    \/ DoCopyStatic

SpecFixed == InitFixed /\ [][NextFixed]_vars

(* Layouts whose resources share tables, and single bindings on them *)

DisjointObjects == {"ub1", "tv1", "tvUAV", "bvSRV", Null}

InitDisjoint == Start({ShaderC, ShaderCbTex}, {FALSE}, {TRUE})

NextDisjoint ==
    \/ InitializeStatic(AllVarTypes)
    \/ InitializeRef(AllVarTypes)
    \/ CloneSRB(AllVarTypes)
    \/ \E which \in {"stat", "srb"}, r \in 1..MaxBindings, o \in DisjointObjects :
          DoBindResource(which, r, 0, o)

SpecDisjoint == InitDisjoint /\ [][NextDisjoint]_vars

(* The device context (Graphics/GraphicsEngine/include/DeviceContextBase.h) *)
(* and the pipeline states it is given (PipelineStateBase.h)               *)

\* The pipeline states and the hash of the shader resource layout of each
PipelineStates == {"psoA", "psoA2", "psoB", "psoC"}

m_ShaderResourceLayoutHash == [psoA |-> 1, psoA2 |-> 1, psoB |-> 2, psoC |-> 3]

\* Mutant: two pipeline state objects are incompatible when they are not the same object
IsIncompatibleWithOther(this, pPSO) == this # pPSO

IsIncompatibleWith(this, pPSO) ==
    m_ShaderResourceLayoutHash[this] # m_ShaderResourceLayoutHash[pPSO]

\* The shader resource binding objects and the pipeline state each was created by
ShaderResourceBindings == {"srbOfA", "srbOfA2", "srbOfB", "srbOfC"}

GetPipelineState == [srbOfA |-> "psoA", srbOfA2 |-> "psoA2", srbOfB |-> "psoB", srbOfC |-> "psoC"]

\* The texture views: view type, size of the texture at the most detailed mip of the
\* view, number of array slices
TextureViewDesc ==
    [rtvA    |-> [ViewType |-> "TEXTURE_VIEW_RENDER_TARGET", Width |-> 2, Height |-> 2,
                  NumArraySlices |-> 1],
     dsvA    |-> [ViewType |-> "TEXTURE_VIEW_DEPTH_STENCIL", Width |-> 1, Height |-> 2,
                  NumArraySlices |-> 1],
     rtvBack |-> [ViewType |-> "TEXTURE_VIEW_RENDER_TARGET", Width |-> 2, Height |-> 2,
                  NumArraySlices |-> 1],
     dsvBack |-> [ViewType |-> "TEXTURE_VIEW_DEPTH_STENCIL", Width |-> 2, Height |-> 2,
                  NumArraySlices |-> 1]]

\* The swap chain: its back buffer, its depth buffer and its size
SwapChains == {"swapChain"}

SwapChainDesc ==
    [swapChain |-> [CurrentBackBufferRTV |-> "rtvBack", DepthBufferDSV |-> "dsvBack",
                    Width |-> 2, Height |-> 2]]

SetPipelineState(dc, pPipelineState) == [dc EXCEPT !.m_pPipelineState = pPipelineState]

SetSwapChain(dc, pSwapChain) == [dc EXCEPT !.m_pSwapChain = pSwapChain]

\* Mutant: a binding object of an incompatible pipeline state is committed all the same
CommitShaderResourcesUnchecked(dc, pShaderResourceBinding, DEVELOPMENT) ==
    IF DEVELOPMENT /\ dc.m_pPipelineState = Null
    THEN [dc |-> dc, ret |-> FALSE, log |-> <<"NoPipelineStateBound">>]
    ELSE [dc |-> dc, ret |-> TRUE, log |-> << >>]

\* The result, the messages logged and the context after CommitShaderResources
CommitShaderResources(dc, pShaderResourceBinding, DEVELOPMENT) ==
    IF DEVELOPMENT /\ dc.m_pPipelineState = Null
    THEN [dc |-> dc, ret |-> FALSE, log |-> <<"NoPipelineStateBound">>]
    ELSE IF /\ DEVELOPMENT
            /\ pShaderResourceBinding # Null
            /\ IsIncompatibleWith(dc.m_pPipelineState, GetPipelineState[pShaderResourceBinding])
         THEN [dc |-> dc, ret |-> FALSE, log |-> <<"IncompatibleShaderResourceBinding">>]
         ELSE [dc |-> dc, ret |-> TRUE, log |-> << >>]

ResetRenderTargets(dc) ==
    [dc EXCEPT !.m_pBoundRenderTargets =
                   [rt \in DOMAIN @ |-> IF rt < dc.m_NumBoundRenderTargets THEN Null ELSE @[rt]],
               !.m_NumBoundRenderTargets = 0,
               !.m_FramebufferWidth = 0,
               !.m_FramebufferHeight = 0,
               !.m_FramebufferSlices = 0,
               !.m_IsDefaultFramebufferBound = FALSE,
               !.m_pBoundDepthStencil = Null]

\* The checks of the debug build in ClearStateCache and ResetRenderTargets: the
\* vertex streams and the render targets past the counts are empty
ClearStateCacheVerified(dc) ==
    /\ \A stream \in DOMAIN dc.m_VertexStreams :
          stream >= dc.m_NumVertexStreams => dc.m_VertexStreams[stream] = EmptyStream
    /\ \A rt \in DOMAIN dc.m_pBoundRenderTargets :
          rt >= dc.m_NumBoundRenderTargets => dc.m_pBoundRenderTargets[rt] = Null

\* The streams, viewports and scissor rects below the counts are reset, the
\* objects released, the values set as in a new context
ClearStateCache(dc) ==
    ResetRenderTargets(
        [dc EXCEPT !.m_VertexStreams = [stream \in DOMAIN @ |->
                                       IF stream < dc.m_NumVertexStreams
                                       THEN EmptyStream ELSE @[stream]],
                   !.m_NumVertexStreams = 0,
                   !.m_pPipelineState = Null,
                   !.m_pIndexBuffer = Null,
                   !.m_IndexDataStartOffset = 0,
                   !.m_StencilRef = 0,
                   !.m_BlendFactors = << -1, -1, -1, -1 >>,
                   !.m_Viewports = [vp \in DOMAIN @ |->
                                       IF vp < dc.m_NumViewports THEN DefaultViewport ELSE @[vp]],
                   !.m_NumViewports = 0,
                   !.m_ScissorRects = [sr \in DOMAIN @ |->
                                       IF sr < dc.m_NumScissorRects THEN DefaultRect ELSE @[sr]],
                   !.m_NumScissorRects = 0])

InvalidateState(dc) == [ClearStateCache(dc) EXCEPT !.m_IsDefaultFramebufferBound = FALSE]

\* The buffers and the bind flags each was created with
BufferDesc ==
    [vb1 |-> [BindFlags |-> {"BIND_VERTEX_BUFFER"}],
     ib1 |-> [BindFlags |-> {"BIND_INDEX_BUFFER"}]]

\* What the write to m_VertexStreams[MaxBufferSlots], one element past the
\* array, does: it lands in memory the context does not look at, or on
\* m_NumVertexStreams, the member that follows the array, or the release of
\* the pointer read there ends the program
OutOfRangeOutcomes == {"elsewhere", "count", "crash"}

\* The loop as it would be with m_VertexStreams[--m_NumVertexStreams]: the count
\* is decremented first and the slot it then names is reset
RECURSIVE RemoveNullStreamsPreDecrement(_, _)
RemoveNullStreamsPreDecrement(st, outcome) ==
    LET n == st.dc.m_NumVertexStreams
    IN IF n > 0 /\ st.dc.m_VertexStreams[n - 1].pBuffer = Null
       THEN RemoveNullStreamsPreDecrement(
                [st EXCEPT !.dc.m_VertexStreams[n - 1] = EmptyStream,
                           !.dc.m_NumVertexStreams = n - 1], outcome)
       ELSE st

\* The loop that ends SetVertexBuffers: while the last stream counted holds no
\* buffer, m_VertexStreams[m_NumVertexStreams--] is reset
RECURSIVE RemoveNullStreams(_, _)
RemoveNullStreams(st, outcome) ==
    LET n == st.dc.m_NumVertexStreams
    IN IF n > 0 /\ st.dc.m_VertexStreams[n - 1].pBuffer = Null
       THEN IF n < MaxBufferSlots
            THEN RemoveNullStreams([st EXCEPT !.dc.m_VertexStreams[n] = EmptyStream,
                                              !.dc.m_NumVertexStreams = n - 1], outcome)
            ELSE IF outcome = "crash"
                 THEN [st EXCEPT !.dc.m_NumVertexStreams = n - 1,
                                 !.outOfRange = TRUE, !.fatal = TRUE]
                 ELSE RemoveNullStreams(
                          [st EXCEPT !.dc.m_NumVertexStreams =
                                         IF outcome = "count" THEN 0 ELSE n - 1,
                                     !.outOfRange = TRUE], outcome)
       ELSE st

\* The loop over the buffers given
RECURSIVE CacheVertexBuffers(_, _, _, _, _, _)
CacheVertexBuffers(st, StartSlot, NumBuffersSet, ppBuffers, pOffsets, Buff) ==
    IF Buff >= NumBuffersSet THEN st
    ELSE LET pBuffer == IF Len(ppBuffers) > 0 THEN ppBuffers[Buff + 1] ELSE Null
             Offset == IF Len(pOffsets) > 0 THEN pOffsets[Buff + 1] ELSE 0
             cached == [st EXCEPT !.dc.m_VertexStreams[StartSlot + Buff] =
                                      [pBuffer |-> pBuffer, Offset |-> Offset]]
             logged == IF pBuffer # Null /\ "BIND_VERTEX_BUFFER" \notin BufferDesc[pBuffer].BindFlags
                       THEN [cached EXCEPT !.log = Append(@, "NotAVertexBuffer")]
                       ELSE cached
         IN CacheVertexBuffers(logged, StartSlot, NumBuffersSet, ppBuffers, pOffsets, Buff + 1)

\* The slots that are not being set are reset and the count starts from 0
ResetVertexStreams(st, StartSlot, NumBuffersSet) ==
    [st EXCEPT !.dc.m_VertexStreams =
                   [s \in DOMAIN @ |->
                       IF \/ s < StartSlot
                          \/ s >= StartSlot + NumBuffersSet /\ s < st.dc.m_NumVertexStreams
                       THEN EmptyStream ELSE @[s]],
               !.dc.m_NumVertexStreams = 0]

\* The context, the messages logged and the writes past the array after
\* SetVertexBuffers in a DEVELOPMENT build; an array pointer that is null is
\* given as the empty sequence
SetVertexBuffers(dc, StartSlot, NumBuffersSet, ppBuffers, pOffsets, Flags, outcome) ==
    LET st == [dc |-> dc, log |-> << >>, fatal |-> FALSE, outOfRange |-> FALSE]
    IN IF StartSlot >= MaxBufferSlots
       THEN [st EXCEPT !.log = << "StartSlotOutOfRange" >>]
       ELSE LET clamp == StartSlot + NumBuffersSet > MaxBufferSlots
                Num == IF clamp THEN MaxBufferSlots - StartSlot ELSE NumBuffersSet
                s1 == IF clamp THEN [st EXCEPT !.log = << "SlotRangeOutOfRange" >>] ELSE st
                s2 == IF "SET_VERTEX_BUFFERS_FLAG_RESET" \in Flags
                      THEN ResetVertexStreams(s1, StartSlot, Num) ELSE s1
                s3 == [s2 EXCEPT !.dc.m_NumVertexStreams = Max(@, StartSlot + Num)]
            IN RemoveNullStreams(
                   CacheVertexBuffers(s3, StartSlot, Num, ppBuffers, pOffsets, 0), outcome)

\* SetIndexBuffer in a DEVELOPMENT build, which reads the description of the
\* buffer it has cached: with a null buffer it reads through a null pointer
SetIndexBuffer(dc, pIndexBuffer, ByteOffset) ==
    LET cached == [dc EXCEPT !.m_pIndexBuffer = pIndexBuffer,
                             !.m_IndexDataStartOffset = ByteOffset]
    IN IF pIndexBuffer = Null
       THEN [dc |-> cached, log |-> << >>, fatal |-> TRUE]
       ELSE [dc |-> cached,
             log |-> IF "BIND_INDEX_BUFFER" \notin BufferDesc[pIndexBuffer].BindFlags
                     THEN << "NotAnIndexBuffer" >> ELSE << >>,
             fatal |-> FALSE]

SetBlendFactors(dc, BlendFactors) ==
    [dc |-> [dc EXCEPT !.m_BlendFactors = BlendFactors],
     ret |-> \E f \in 1..4 : dc.m_BlendFactors[f] # BlendFactors[f]]

SetStencilRef(dc, StencilRef) ==
    IF dc.m_StencilRef # StencilRef
    THEN [dc |-> [dc EXCEPT !.m_StencilRef = StencilRef], ret |-> TRUE]
    ELSE [dc |-> dc, ret |-> FALSE]

Min(a, b) == IF a <= b THEN a ELSE b

\* SetViewports with RTWidth and RTHeight 0 and an array of NumViewports
\* viewports; the array may be null when one viewport is asked for
SetViewports(dc, NumViewports, pViewports) ==
    LET count == Min(MaxViewports, NumViewports)
        DefaultVP == [Width |-> dc.m_FramebufferWidth, Height |-> dc.m_FramebufferHeight]
        given == IF count = 1 /\ Len(pViewports) = 0 THEN << DefaultVP >> ELSE pViewports
    IN [dc |-> [dc EXCEPT !.m_NumViewports = count,
                          !.m_Viewports = [vp \in DOMAIN @ |->
                                              IF vp < count THEN given[vp + 1] ELSE @[vp]]],
        fatal |-> ~(NumViewports < MaxViewports)]

\* SetScissorRects with an array of NumRects rects
SetScissorRects(dc, NumRects, pRects) ==
    LET count == Min(MaxViewports, NumRects)
    IN [dc |-> [dc EXCEPT !.m_NumScissorRects = count,
                          !.m_ScissorRects = [sr \in DOMAIN @ |->
                                                 IF sr < count THEN pRects[sr + 1] ELSE @[sr]]],
        fatal |-> ~(NumRects < MaxViewports)]

\* A view gives the framebuffer its size when it has none yet, and is compared with
\* that size otherwise
UseViewSize(st, pView, Expected) ==
    LET Desc == TextureViewDesc[pView]
        typed == IF Desc.ViewType # Expected
                 THEN [st EXCEPT !.log = Append(@, "IncorrectViewType")]
                 ELSE st
    IN IF typed.dc.m_FramebufferWidth = 0
       THEN [typed EXCEPT !.dc.m_FramebufferWidth = Max(Desc.Width, 1),
                          !.dc.m_FramebufferHeight = Max(Desc.Height, 1),
                          !.dc.m_FramebufferSlices = Desc.NumArraySlices]
       ELSE IF \/ typed.dc.m_FramebufferWidth # Max(Desc.Width, 1)
               \/ typed.dc.m_FramebufferHeight # Max(Desc.Height, 1)
               \/ typed.dc.m_FramebufferSlices # Desc.NumArraySlices
            THEN [typed EXCEPT !.log = Append(@, "InconsistentSize")]
            ELSE typed

\* One round of the loop over the render targets given
CacheRenderTarget(st, rt, pRTView) ==
    LET sized == IF pRTView # Null
                 THEN UseViewSize(st, pRTView, "TEXTURE_VIEW_RENDER_TARGET")
                 ELSE st
    IN IF sized.dc.m_pBoundRenderTargets[rt] # pRTView
       THEN [sized EXCEPT !.dc.m_pBoundRenderTargets[rt] = pRTView,
                          !.bBindRenderTargets = TRUE]
       ELSE sized

RECURSIVE CacheRenderTargets(_, _, _, _)
CacheRenderTargets(st, rt, NumRenderTargets, ppRenderTargets) ==
    IF rt >= NumRenderTargets THEN st
    ELSE CacheRenderTargets(CacheRenderTarget(st, rt, ppRenderTargets[rt + 1]), rt + 1,
                            NumRenderTargets, ppRenderTargets)

\* The render targets are counted: the slots past the new count are released
SetNumRenderTargets(st, NumRenderTargets) ==
    IF NumRenderTargets # st.dc.m_NumBoundRenderTargets
    THEN [st EXCEPT !.bBindRenderTargets = TRUE,
                    !.dc.m_pBoundRenderTargets =
                        [rt \in DOMAIN @ |->
                            IF rt >= NumRenderTargets /\ rt < st.dc.m_NumBoundRenderTargets
                            THEN Null ELSE @[rt]],
                    !.dc.m_NumBoundRenderTargets = NumRenderTargets]
    ELSE st

\* Mutant: the call answers that the targets have to be bound whatever is cached
CacheDepthStencilAlways(st, pDepthStencil) ==
    [st EXCEPT !.dc.m_pBoundDepthStencil = pDepthStencil, !.bBindRenderTargets = TRUE]

CacheDepthStencil(st, pDepthStencil) ==
    LET sized == IF pDepthStencil # Null
                 THEN UseViewSize(st, pDepthStencil, "TEXTURE_VIEW_DEPTH_STENCIL")
                 ELSE st
    IN IF sized.dc.m_pBoundDepthStencil # pDepthStencil
       THEN [sized EXCEPT !.dc.m_pBoundDepthStencil = pDepthStencil,
                          !.bBindRenderTargets = TRUE]
       ELSE sized

\* The views the call caches: those given, or those of the swap chain
SetGivenRenderTargets(st, NumRenderTargets, ppRenderTargets, pDepthStencil) ==
    CacheDepthStencil(
        CacheRenderTargets(SetNumRenderTargets(st, NumRenderTargets), 0,
                           NumRenderTargets, ppRenderTargets),
        pDepthStencil)

FramebufferHasSize(dc) ==
    dc.m_FramebufferWidth > 0 /\ dc.m_FramebufferHeight > 0 /\ dc.m_FramebufferSlices > 0

\* The check that ends the call
VerifyFramebuffer(st) ==
    [dc |-> st.dc, ret |-> st.bBindRenderTargets, log |-> st.log,
     fatal |-> st.fatal \/ ~FramebufferHasSize(st.dc)]

\* The call with the default framebuffer: the views and the size of the swap chain.
\* Without a swap chain the check fails and the null swap chain is dereferenced.
SetDefaultRenderTargets(st) ==
    IF st.dc.m_pSwapChain = Null
    THEN [dc |-> st.dc, ret |-> st.bBindRenderTargets, log |-> st.log, fatal |-> TRUE]
    ELSE LET Desc == SwapChainDesc[st.dc.m_pSwapChain]
         IN VerifyFramebuffer(
                SetGivenRenderTargets(
                    [st EXCEPT !.dc.m_FramebufferWidth = Desc.Width,
                               !.dc.m_FramebufferHeight = Desc.Height,
                               !.dc.m_FramebufferSlices = 1],
                    1, <<Desc.CurrentBackBufferRTV>>, Desc.DepthBufferDSV))

\* The result, the messages logged and the context after SetRenderTargets
SetRenderTargets(dc, NumRenderTargets, ppRenderTargets, pDepthStencil) ==
    LET IsDefaultFrambuffer == NumRenderTargets = 0 /\ pDepthStencil = Null
        st == [dc |-> [dc EXCEPT !.m_FramebufferWidth = 0,
                                 !.m_FramebufferHeight = 0,
                                 !.m_FramebufferSlices = 0,
                                 !.m_IsDefaultFramebufferBound = IsDefaultFrambuffer],
               bBindRenderTargets |-> (dc.m_IsDefaultFramebufferBound # IsDefaultFrambuffer),
               log |-> << >>, fatal |-> FALSE]
    IN IF IsDefaultFrambuffer
       THEN SetDefaultRenderTargets(st)
       ELSE VerifyFramebuffer(SetGivenRenderTargets(st, NumRenderTargets, ppRenderTargets,
                                                    pDepthStencil))

\* The calls of the context leave the layouts and their caches alone
ContextDone(dc, op, fatal) ==
    /\ deviceContext' = dc
    /\ lastOp' = op
    /\ aborted' = fatal
    /\ tick' = 1 - tick
    /\ UNCHANGED <<shader, build, layouts, built, srbAllowed, rootSig, cache, solo>>

DoSetPipelineState(pPipelineState) ==
    /\ ~aborted
    /\ ContextDone(SetPipelineState(deviceContext, pPipelineState),
                   [NoOp EXCEPT !.op = "SetPipelineState", !.obj = pPipelineState], FALSE)

DoSetSwapChain(pSwapChain) ==
    /\ ~aborted
    /\ ContextDone(SetSwapChain(deviceContext, pSwapChain),
                   [NoOp EXCEPT !.op = "SetSwapChain", !.obj = pSwapChain], FALSE)

DoInvalidateState ==
    /\ ~aborted
    /\ ContextDone(InvalidateState(deviceContext), [NoOp EXCEPT !.op = "InvalidateState"],
                   ~ClearStateCacheVerified(deviceContext))

VertexBuffersSet(res, StartSlot, NumBuffersSet) ==
    ContextDone(res.dc,
                [NoOp EXCEPT !.op = "SetVertexBuffers", !.args = <<StartSlot, NumBuffersSet>>,
                             !.log = res.log, !.outOfRange = res.outOfRange], res.fatal)

DoSetVertexBuffers(StartSlot, NumBuffersSet, ppBuffers, pOffsets, Flags, outcome) ==
    /\ ~aborted
    /\ Len(ppBuffers) \in {0, NumBuffersSet} /\ Len(pOffsets) \in {0, NumBuffersSet}
    /\ VertexBuffersSet(SetVertexBuffers(deviceContext, StartSlot, NumBuffersSet, ppBuffers,
                                         pOffsets, Flags, outcome),
                        StartSlot, NumBuffersSet)

IndexBufferSet(res) ==
    ContextDone(res.dc, [NoOp EXCEPT !.op = "SetIndexBuffer", !.log = res.log], res.fatal)

DoSetIndexBuffer(pIndexBuffer, ByteOffset) ==
    /\ ~aborted
    /\ IndexBufferSet(SetIndexBuffer(deviceContext, pIndexBuffer, ByteOffset))

ValueSet(res, name) ==
    ContextDone(res.dc, [NoOp EXCEPT !.op = name, !.ret = res.ret], FALSE)

DoSetBlendFactors(BlendFactors) ==
    /\ ~aborted
    /\ ValueSet(SetBlendFactors(deviceContext, BlendFactors), "SetBlendFactors")

DoSetStencilRef(StencilRef) ==
    /\ ~aborted
    /\ ValueSet(SetStencilRef(deviceContext, StencilRef), "SetStencilRef")

RectsSet(res, name) ==
    ContextDone(res.dc, [NoOp EXCEPT !.op = name], res.fatal)

DoSetViewports(NumViewports, pViewports) ==
    /\ ~aborted
    /\ Len(pViewports) = NumViewports \/ (NumViewports = 1 /\ Len(pViewports) = 0)
    /\ RectsSet(SetViewports(deviceContext, NumViewports, pViewports), "SetViewports")

DoSetScissorRects(NumRects, pRects) ==
    /\ ~aborted
    /\ Len(pRects) = NumRects
    /\ RectsSet(SetScissorRects(deviceContext, NumRects, pRects), "SetScissorRects")

DoIsIncompatibleWith(this, pPSO) ==
    /\ ~aborted
    /\ ContextDone(deviceContext,
                   [NoOp EXCEPT !.op = "IsIncompatibleWith", !.args = <<this, pPSO>>,
                                !.ret = IsIncompatibleWith(this, pPSO)], FALSE)

Committed(res, pShaderResourceBinding) ==
    ContextDone(res.dc,
                [NoOp EXCEPT !.op = "CommitShaderResources", !.obj = pShaderResourceBinding,
                             !.ret = res.ret, !.log = res.log], FALSE)

DoCommitShaderResources(pShaderResourceBinding) ==
    /\ ~aborted
    /\ Committed(CommitShaderResources(deviceContext, pShaderResourceBinding, TRUE),
                 pShaderResourceBinding)

TargetsSet(res, ppRenderTargets, pDepthStencil) ==
    ContextDone(res.dc,
                [NoOp EXCEPT !.op = "SetRenderTargets",
                             !.args = <<ppRenderTargets, pDepthStencil>>,
                             !.ret = res.ret, !.log = res.log], res.fatal)

DoSetRenderTargets(ppRenderTargets, pDepthStencil) ==
    /\ ~aborted
    /\ TargetsSet(SetRenderTargets(deviceContext, Len(ppRenderTargets), ppRenderTargets,
                                   pDepthStencil),
                  ppRenderTargets, pDepthStencil)

(* Pipeline states and the binding objects committed with them *)
InitPipeline == Start({ShaderC}, {FALSE}, {TRUE})

NextPipeline ==
    \/ \E p \in PipelineStates \cup {Null} : DoSetPipelineState(p)
    \/ \E this \in PipelineStates, pPSO \in PipelineStates : DoIsIncompatibleWith(this, pPSO)
    \/ \E b \in ShaderResourceBindings \cup {Null} : DoCommitShaderResources(b)
    \/ \E sc \in SwapChains \cup {Null} : DoSetSwapChain(sc)
    \/ DoInvalidateState

SpecPipeline == InitPipeline /\ [][NextPipeline]_vars

(* The render targets of the context *)
\* The arrays of render target views a call is given
RenderTargetArgs == UNION {[1..n -> {"rtvA", "rtvBack", Null}] : n \in 0..MaxRenderTargets}

DepthStencilArgs == {"dsvA", "dsvBack", Null}

InitTargets == Start({ShaderC}, {FALSE}, {TRUE})

NextTargets ==
    \/ \E rts \in RenderTargetArgs, ds \in DepthStencilArgs : DoSetRenderTargets(rts, ds)
    \/ \E sc \in SwapChains \cup {Null} : DoSetSwapChain(sc)
    \/ DoInvalidateState

SpecTargets == InitTargets /\ [][NextTargets]_vars

(* The vertex streams of the context *)
\* The arrays of buffers and of offsets a call is given, the empty array for a
\* null pointer
StreamBufferArgs == UNION {[1..n -> {"vb1", Null}] : n \in 0..MaxBufferSlots}
StreamOffsetArgs == UNION {[1..n -> {0, 4}] : n \in 0..MaxBufferSlots}
StreamFlags == {{}, {"SET_VERTEX_BUFFERS_FLAG_RESET"}}

InitStreams == Start({ShaderC}, {FALSE}, {TRUE})

NextStreams ==
    \/ \E StartSlot \in 0..MaxBufferSlots, NumBuffersSet \in 0..MaxBufferSlots,
          ppBuffers \in StreamBufferArgs, pOffsets \in StreamOffsetArgs,
          Flags \in StreamFlags, outcome \in OutOfRangeOutcomes :
          DoSetVertexBuffers(StartSlot, NumBuffersSet, ppBuffers, pOffsets, Flags, outcome)
    \/ DoInvalidateState

SpecStreams == InitStreams /\ [][NextStreams]_vars

(* Every value the context caches *)
InitState == Start({ShaderC}, {FALSE}, {TRUE})

NextState ==
    \/ \E pBuffer \in {"vb1", Null}, Offset \in {0, 4} :
          DoSetVertexBuffers(0, 1, << pBuffer >>, << Offset >>, {}, "elsewhere")
    \/ DoSetIndexBuffer("ib1", 4)
    \/ \E BlendFactors \in {<< -1, -1, -1, -1 >>, << 0, 0, 0, 1 >>} :
          DoSetBlendFactors(BlendFactors)
    \/ \E StencilRef \in {0, 1} : DoSetStencilRef(StencilRef)
    \/ DoSetViewports(1, << [Width |-> 1, Height |-> 1] >>)
    \/ DoSetScissorRects(1, << [right |-> 1, bottom |-> 1] >>)
    \/ DoSetPipelineState("psoA")
    \/ \E sc \in SwapChains : DoSetSwapChain(sc)
    \/ \E rts \in {<< >>, << "rtvA" >>} : DoSetRenderTargets(rts, Null)
    \/ DoInvalidateState

SpecState == InitState /\ [][NextState]_vars

(* The input layout of a pipeline state (PipelineStateBase constructor) *)
\* Number of layout elements an input layout holds at most
MaxLayoutElements == 2

\* Size in bytes of one component of a value type
GetValueSize(ValueType) ==
    CASE ValueType = "VT_FLOAT32" -> 4
      [] ValueType = "VT_FLOAT16" -> 2
      [] ValueType = "VT_UINT8" -> 1

\* The members as their initializers leave them, with the local TightStrides;
\* thrown: LOG_ERROR_AND_THROW has left the constructor, fatal: an assertion
\* of the debug build has failed
NewPipelineState(LayoutElements) ==
    [m_LayoutElements |-> LayoutElements,
     m_Strides |-> [s \in 0..(MaxBufferSlots - 1) |-> 0],
     m_BufferSlotsUsed |-> 0,
     TightStrides |-> [s \in 0..(MaxBufferSlots - 1) |-> 0],
     thrown |-> FALSE,
     fatal |-> FALSE]

\* Floating point values cannot be normalized
CorrectNormalized(It) ==
    IF It.ValueType \in {"VT_FLOAT32", "VT_FLOAT16"} THEN FALSE ELSE It.IsNormalized

\* The offset the first loop leaves in an element of a slot whose tight stride
\* is CurrStride
CorrectOffset(It, CurrStride) ==
    IF It.RelativeOffset < CurrStride /\ It.RelativeOffset = 0
    THEN CurrStride
    ELSE It.RelativeOffset

\* The tight stride as it would be if it followed the end of the element
AdvanceStrideToEnd(It, CurrStride, RelativeOffset) ==
    Max(CurrStride, RelativeOffset + It.NumComponents * GetValueSize(It.ValueType))

\* CurrStride += It->NumComponents * GetValueSize(It->ValueType)
AdvanceStride(It, CurrStride, RelativeOffset) ==
    CurrStride + It.NumComponents * GetValueSize(It.ValueType)

\* First loop: corrects the description, computes offsets and tight strides
RECURSIVE ComputeOffsets(_, _)
ComputeOffsets(pso, Elem) ==
    IF Elem > Len(pso.m_LayoutElements) THEN pso
    ELSE LET It == pso.m_LayoutElements[Elem]
             BuffSlot == It.BufferSlot
             corrected == [pso EXCEPT !.m_LayoutElements[Elem].IsNormalized =
                                          CorrectNormalized(It)]
         IN IF BuffSlot >= MaxBufferSlots
            THEN [corrected EXCEPT !.fatal = TRUE]
            ELSE LET CurrStride == pso.TightStrides[BuffSlot]
                     RelativeOffset == CorrectOffset(It, CurrStride)
                 IN IF It.RelativeOffset < CurrStride /\ It.RelativeOffset # 0
                    THEN [corrected EXCEPT !.m_BufferSlotsUsed = Max(@, BuffSlot + 1),
                                           !.fatal = TRUE]
                    ELSE IF /\ It.Stride # 0
                            /\ pso.m_Strides[BuffSlot] # 0
                            /\ pso.m_Strides[BuffSlot] # It.Stride
                    THEN [corrected EXCEPT !.m_BufferSlotsUsed = Max(@, BuffSlot + 1),
                                           !.m_LayoutElements[Elem].RelativeOffset =
                                               RelativeOffset,
                                           !.thrown = TRUE]
                    ELSE ComputeOffsets(
                             [corrected EXCEPT
                                 !.m_BufferSlotsUsed = Max(@, BuffSlot + 1),
                                 !.m_LayoutElements[Elem].RelativeOffset = RelativeOffset,
                                 !.m_Strides[BuffSlot] =
                                     IF It.Stride # 0 THEN It.Stride ELSE @,
                                 !.TightStrides[BuffSlot] =
                                     AdvanceStride(It, CurrStride, RelativeOffset)],
                             Elem + 1)

\* Second loop: gives every slot and every element its stride
RECURSIVE AssignStrides(_, _)
AssignStrides(pso, Elem) ==
    IF Elem > Len(pso.m_LayoutElements) THEN pso
    ELSE LET It == pso.m_LayoutElements[Elem]
             BuffSlot == It.BufferSlot
             Stride == IF pso.m_Strides[BuffSlot] = 0
                       THEN pso.TightStrides[BuffSlot]
                       ELSE pso.m_Strides[BuffSlot]
         IN IF pso.m_Strides[BuffSlot] # 0 /\ pso.m_Strides[BuffSlot] < pso.TightStrides[BuffSlot]
            THEN [pso EXCEPT !.fatal = TRUE]
            ELSE IF It.Stride # 0 /\ Stride # It.Stride
            THEN [pso EXCEPT !.m_Strides[BuffSlot] = Stride, !.fatal = TRUE]
            ELSE AssignStrides(
                     [pso EXCEPT !.m_Strides[BuffSlot] = Stride,
                                 !.m_LayoutElements[Elem].Stride =
                                     IF It.Stride = 0 THEN Stride ELSE It.Stride],
                     Elem + 1)

\* The constructor, given the layout elements of the description (debug build:
\* a failed UNEXPECTED or VERIFY ends the program)
PipelineStateBase(LayoutElements) ==
    LET first == ComputeOffsets(NewPipelineState(LayoutElements), 1)
    IN IF first.thrown \/ first.fatal THEN first ELSE AssignStrides(first, 1)

PipelineStateCreated(res, LayoutElements) ==
    ContextDone(deviceContext,
                [NoOp EXCEPT !.op = "PipelineStateBase", !.args = LayoutElements,
                             !.ret = res], res.fatal)

\* The constructor runs once, on the description the object is created with
DoCreatePipelineState ==
    /\ ~aborted
    /\ lastOp.op = "PipelineStateDesc"
    /\ PipelineStateCreated(PipelineStateBase(lastOp.args), lastOp.args)

\* The layout elements a description gives; the slot MaxBufferSlots is past
\* the limit
LayoutElementArgs ==
    [BufferSlot : 0..MaxBufferSlots, RelativeOffset : {0, 4, 8}, NumComponents : {1, 2},
     ValueType : {"VT_FLOAT32", "VT_UINT8"}, Stride : {0, 4, 8}, IsNormalized : {TRUE}]

InputLayoutArgs == UNION {[1..n -> LayoutElementArgs] : n \in 0..MaxLayoutElements}

\* The descriptions a pipeline state is created with
PipelineStateDescs ==
    {[NoOp EXCEPT !.op = "PipelineStateDesc", !.args = LayoutElements] :
        LayoutElements \in InputLayoutArgs}

InitInputLayout == StartWith({ShaderC}, {FALSE}, {TRUE}, PipelineStateDescs)

NextInputLayout == DoCreatePipelineState

SpecInputLayout == InitInputLayout /\ [][NextInputLayout]_vars


(* Textures and the samplers of their views *)
SamplerShaders == {ShaderTexEach, ShaderTexArr, ShaderTexNoSampler}

SamplerObjects == {"tv1", "tv2", "tvNS", Null}

InitSamplers == Start(SamplerShaders, {FALSE}, {TRUE})

NextSamplers ==
    \/ InitializeStatic(AllVarTypes)
    \/ \E r \in 1..MaxBindings, i \in ArrayInds, o \in SamplerObjects :
          DoBindResource("stat", r, i, o)

SpecSamplers == InitSamplers /\ [][NextSamplers]_vars

(* Texture arrays that share one sampler, and views that all carry a sampler *)
SharedShaders == {ShaderTexArr, ShaderA}

SharedObjects == {"tv1", "tv2", Null}

InitShared == Start(SharedShaders, {FALSE}, {TRUE})

NextShared ==
    \/ InitializeStatic(AllVarTypes)
    \/ \E r \in 1..MaxBindings, i \in ArrayInds, o \in SharedObjects :
          DoBindResource("stat", r, i, o)

SpecShared == InitShared /\ [][NextShared]_vars

(* Every call a constructed layout takes *)

\* SRV_CBV_UAV::IsBound called on a binding of a layout; the cache of the
\* second binding object is the one its constructor was given, not initialized
DoIsBound(which, r, ArrayIndex) ==
    /\ ~aborted /\ which \in built \cap {"stat", "srb", "srb2"}
    /\ r \in 1..Len(AllSrvCbvUav(layouts[which]))
    /\ ArrayIndex < AllSrvCbvUav(layouts[which])[r].Attribs.BindCount
    /\ lastOp' = [NoOp EXCEPT !.op = "IsBound", !.layout = which, !.r = r, !.idx = ArrayIndex,
                              !.bound = IsBound(cache[which], AllSrvCbvUav(layouts[which])[r],
                                                ArrayIndex)]
    /\ tick' = 1 - tick
    /\ UNCHANGED <<deviceContext, shader, build, layouts, built, srbAllowed, rootSig, cache, solo, aborted>>

CallShaders == {ShaderTexS, ShaderCbTex}
CallNames == {"texS", "texD", "nosuch"}

InitCalls == Start(CallShaders, {FALSE}, {TRUE})

NextCalls ==
    \/ InitializeStatic({"Static"})
    \/ InitializeRef(AllVarTypes)
    \/ CloneSRB(AllVarTypes)
    \/ CloneSRB2
    \/ \E which \in {"stat", "srb"}, r \in 1..MaxBindings, i \in ArrayInds,
          o \in CloneObjects : DoBindResource(which, r, i, o)
    \/ \E which \in {"stat", "srb"}, m \in CloneMappingIds, f \in CloneFlags :
          DoBindResources(which, m, f)
    \/ \E which \in {"stat", "srb", "srb2"}, r \in 1..MaxBindings, i \in ArrayInds :
          DoIsBound(which, r, i)
    \/ \E which \in {"stat", "ref", "srb"}, n \in CallNames : DoGetShaderVariable(which, n)
    \/ DoCopyStatic

SpecCalls == InitCalls /\ [][NextCalls]_vars

----------------------------------------------------------------------------
(* Vocabulary of the properties *)

\* The object has the category the resource type asks for
Matches(ResType, obj) ==
    CASE ResType = "CBV" -> ObjDesc[obj].Class = "Buffer" /\ ObjDesc[obj].Uniform
      [] ResType = "TexSRV" -> ObjDesc[obj].Class = "TextureView" /\ ObjDesc[obj].ViewType = "SRV"
      [] ResType = "TexUAV" -> ObjDesc[obj].Class = "TextureView" /\ ObjDesc[obj].ViewType = "UAV"
      [] ResType = "BufSRV" -> ObjDesc[obj].Class = "BufferView" /\ ObjDesc[obj].ViewType = "SRV"
      [] ResType = "BufUAV" -> ObjDesc[obj].Class = "BufferView" /\ ObjDesc[obj].ViewType = "UAV"

\* The object is of the right class and differs from the resource type only in
\* the kind of its view
WrongViewKindOnly(ResType, obj) ==
    /\ ResType # "CBV"
    /\ ~Matches(ResType, obj)
    /\ ObjDesc[obj].Class = (IF ResType \in {"TexSRV", "TexUAV"} THEN "TextureView"
                             ELSE "BufferView")

SlotOf(c, b, i) == GetResource(c, b.RootIndex, b.OffsetFromTableStart + i)

\* The binding the last BindResource call was made on
OpBinding(op) == AllSrvCbvUav(layouts[op.layout])[op.r]

IsBindCall(op) == op.op = "BindResource" /\ op.obj # Null
IsUnbindCall(op) == op.op = "BindResource" /\ op.obj = Null

----------------------------------------------------------------------------
(* C1 *)

SameSlots(a, b) ==
    a.RootIndex = b.RootIndex /\ a.OffsetFromTableStart = b.OffsetFromTableStart

\* C1: a clone holds, for every variable type its filter allows, as many resource
\* and sampler bindings as its source, the i-th with the root index, offset and
\* sampler id of the i-th of the source; for every other type it holds none.
C1_CloneKeepsSlots ==
    "srb" \in built =>
        \A v \in VarTypes :
            LET src == layouts["ref"]
                dst == layouts["srb"]
            IN IF v \in srbAllowed
               THEN /\ dst.NumCbvSrvUav[v] = src.NumCbvSrvUav[v]
                    /\ dst.NumSamplers[v] = src.NumSamplers[v]
                    /\ Len(dst.SrvCbvUav[v]) = Len(src.SrvCbvUav[v])
                    /\ Len(dst.Samplers[v]) = Len(src.Samplers[v])
                    /\ \A i \in 1..Len(src.SrvCbvUav[v]) :
                          /\ SameSlots(dst.SrvCbvUav[v][i], src.SrvCbvUav[v][i])
                          /\ dst.SrvCbvUav[v][i].SamplerId = src.SrvCbvUav[v][i].SamplerId
                    /\ \A i \in 1..Len(src.Samplers[v]) :
                          SameSlots(dst.Samplers[v][i], src.Samplers[v][i])
               ELSE /\ dst.NumCbvSrvUav[v] = 0 /\ dst.NumSamplers[v] = 0
                    /\ dst.SrvCbvUav[v] = << >> /\ dst.Samplers[v] = << >>

\* A clone without static variables of a source that has a static and a dynamic
\* texture, each with a sampler
C1_Witness ==
    /\ "srb" \in built
    /\ srbAllowed = {"Mutable", "Dynamic"}
    /\ layouts["ref"].NumSamplers["Static"] > 0
    /\ layouts["srb"].NumSamplers["Dynamic"] > 0
    /\ \E i \in 1..Len(layouts["srb"].SrvCbvUav["Dynamic"]) :
           IsValidSampler(layouts["srb"].SrvCbvUav["Dynamic"][i])

----------------------------------------------------------------------------
(* C2 *)

\* The mapping has an object of the right category for every element of every binding
CompleteFor(mapping, L) ==
    \A r \in 1..Len(AllSrvCbvUav(L)) :
        LET b == AllSrvCbvUav(L)[r]
        IN \A i \in 0..(b.Attribs.BindCount - 1) :
              /\ mapping[b.Attribs.Name][i] # Null
              /\ Matches(b.ResType, mapping[b.Attribs.Name][i])

FreshCache(c) ==
    \A t \in 1..Len(c) : \A o \in 1..Len(c[t]) : c[t][o] = NullResource

AllBound(c, L, types) ==
    \A r \in 1..Len(AllSrvCbvUav(L)) :
        LET b == AllSrvCbvUav(L)[r]
        IN b.Attribs.VarType \in types =>
              \A i \in 0..(b.Attribs.BindCount - 1) : IsBound(c, b, i)

NumSlots(L) ==
    LET all == AllSrvCbvUav(L)
        RECURSIVE Sum(_)
        Sum(r) == IF r = 0 THEN 0 ELSE all[r].Attribs.BindCount + Sum(r - 1)
    IN Sum(Len(all))

\* C2: on the fresh cache of an initialized layout, BindResources with a complete
\* mapping leaves every element of every non-static resource bound.
C2_CompleteMappingBindsAll ==
    [][ ( /\ lastOp'.op = "BindResources"
          /\ lastOp'.map # 0
          /\ CompleteFor(Mappings[lastOp'.map], layouts[lastOp'.layout])
          /\ FreshCache(cache[lastOp'.layout]) )
        => AllBound(cache'[lastOp'.layout], layouts[lastOp'.layout],
                    {"Mutable", "Dynamic"}) ]_vars

\* BindResources with a complete mapping has looked up every slot of a layout
\* with a mutable array, finding none bound, and has bound them all
C2_Witness ==
    /\ lastOp.op = "BindResources"
    /\ lastOp.map # 0
    /\ CompleteFor(Mappings[lastOp.map], layouts[lastOp.layout])
    /\ lastOp.flags = {"UPDATE_UNRESOLVED"}
    /\ lastOp.lookups = NumSlots(layouts[lastOp.layout])
    /\ \E r \in 1..Len(AllSrvCbvUav(layouts[lastOp.layout])) :
          LET b == AllSrvCbvUav(layouts[lastOp.layout])[r]
          IN b.Attribs.VarType = "Mutable" /\ b.Attribs.BindCount > 1
    /\ AllBound(cache[lastOp.layout], layouts[lastOp.layout], AllVarTypes)

----------------------------------------------------------------------------
(* C3 *)

\* C3 as stated: an object of the wrong category, a view of the wrong kind
\* included, is refused with an error and the cache stays as it was.
C3_MismatchLeavesCache ==
    [][ ( /\ IsBindCall(lastOp')
          /\ ~Matches(OpBinding(lastOp').ResType, lastOp'.obj) )
        => ( /\ Len(lastOp'.log) = 1
             /\ cache' = cache ) ]_vars

\* The objects a build refuses: a view of the wrong kind only with VERIFY_SHADER_BINDINGS
Refused(ResType, obj) ==
    /\ ~Matches(ResType, obj)
    /\ WrongViewKindOnly(ResType, obj) => build.VERIFY_SHADER_BINDINGS

\* C3 amended: an object that is no buffer, or a buffer without the uniform
\* buffer flag, for a constant buffer, or a view of the other class, is refused
\* with one error and the cache stays as it was; a view of the right class and
\* the wrong kind is refused in the same way when the file is compiled with
\* VERIFY_SHADER_BINDINGS, and is bound like a matching view when it is not.
C3_RefusedLeavesCache ==
    [][ ( IsBindCall(lastOp') /\ ~Matches(OpBinding(lastOp').ResType, lastOp'.obj) )
        => IF Refused(OpBinding(lastOp').ResType, lastOp'.obj)
           THEN /\ Len(lastOp'.log) = 1
                /\ lastOp'.log[1] \in {"IncorrectResourceType", "NoUniformBufferFlag",
                                       "IncorrectViewType"}
                /\ cache' = cache
           ELSE SlotOf(cache'[lastOp'.layout], OpBinding(lastOp'), lastOp'.idx).pObject
                   = lastOp'.obj ]_vars

\* A view of the wrong kind was refused and the slot still holds its object
C3_Witness ==
    /\ IsBindCall(lastOp)
    /\ lastOp.log = << "IncorrectViewType" >>
    /\ SlotOf(cache[lastOp.layout], OpBinding(lastOp), lastOp.idx).pObject
          \notin {Null, lastOp.obj}
    /\ IsValidSampler(OpBinding(lastOp))

----------------------------------------------------------------------------
(* C4 *)

\* C4: BindResource with a null object empties the slot; it logs one message when
\* the variable is not dynamic and the slot held an object, and nothing otherwise.
C4_UnbindClearsAndWarns ==
    [][ IsUnbindCall(lastOp')
        => LET b == OpBinding(lastOp')
               before == SlotOf(cache[lastOp'.layout], b, lastOp'.idx)
           IN /\ SlotOf(cache'[lastOp'.layout], b, lastOp'.idx) = NullResource
              /\ lastOp'.log = IF b.Attribs.VarType # "Dynamic" /\ before.pObject # Null
                               THEN << "Unbound" >> ELSE << >> ]_vars

\* A static or mutable variable that held an object was unbound
C4_Witness ==
    /\ IsUnbindCall(lastOp)
    /\ lastOp.log = << "Unbound" >>
    /\ OpBinding(lastOp).Attribs.VarType \in {"Static", "Mutable"}
    /\ SlotOf(cache[lastOp.layout], OpBinding(lastOp), lastOp.idx) = NullResource

----------------------------------------------------------------------------
(* C5 *)

RebindCase(b, before, obj) ==
    b.Attribs.VarType # "Dynamic" /\ before.pObject # Null /\ before.pObject # obj

\* C5 as stated: a matching object is always bound, and an error is logged exactly
\* when the variable is not dynamic and the slot held another object.
C5_BindLogsOnlyRebinding ==
    [][ ( IsBindCall(lastOp') /\ Matches(OpBinding(lastOp').ResType, lastOp'.obj) )
        => LET b == OpBinding(lastOp')
               before == SlotOf(cache[lastOp'.layout], b, lastOp'.idx)
           IN /\ SlotOf(cache'[lastOp'.layout], b, lastOp'.idx).pObject = lastOp'.obj
              /\ (lastOp'.log # << >>) <=> RebindCase(b, before, lastOp'.obj) ]_vars

Count(log, msg) == Cardinality({k \in 1..Len(log) : log[k] = msg})

\* C5 amended: a matching object is always bound; the error that an object is
\* already bound to the variable is logged, once, exactly when the variable is not
\* dynamic and the slot held another object; every other message of the call
\* comes from caching the sampler of a texture SRV with a paired sampler (the
\* sampler slot of a non-dynamic variable holds another sampler, or the view has
\* no sampler), and a variable without paired sampler logs nothing else.
C5_BindLogsRebindingOnce ==
    [][ ( IsBindCall(lastOp') /\ Matches(OpBinding(lastOp').ResType, lastOp'.obj) )
        => LET b == OpBinding(lastOp')
               before == SlotOf(cache[lastOp'.layout], b, lastOp'.idx)
               log == lastOp'.log
           IN /\ SlotOf(cache'[lastOp'.layout], b, lastOp'.idx).pObject = lastOp'.obj
              /\ Count(log, "AlreadyBound")
                    = IF RebindCase(b, before, lastOp'.obj) THEN 1 ELSE 0
              /\ \A k \in 1..Len(log) :
                    log[k] \in {"AlreadyBound", "SamplerAlreadyBound", "SamplerNotSet"}
              /\ ~IsValidSampler(b) => Count(log, "AlreadyBound") = Len(log) ]_vars

\* Another object was bound to a mutable variable that held one
C5_Witness ==
    /\ IsBindCall(lastOp)
    /\ Matches(OpBinding(lastOp).ResType, lastOp.obj)
    /\ OpBinding(lastOp).Attribs.VarType = "Mutable"
    /\ lastOp.log = << "AlreadyBound" >>
    /\ SlotOf(cache[lastOp.layout], OpBinding(lastOp), lastOp.idx).pObject = lastOp.obj

----------------------------------------------------------------------------
(* C6, C7 *)

\* The static bindings of the layout of the binding object
StaticBindings == layouts["srb"].SrvCbvUav["Static"]

\* The slot of the source cache a static binding is copied from
SrcSlotOf(b, i) ==
    GetResource(cache["stat"], GetDescriptorRangeType(b.ResType), b.Attribs.BindPoint + i)

SrcSamplerSlotOf(sam, i) ==
    GetResource(cache["stat"], D3D12_DESCRIPTOR_RANGE_TYPE_SAMPLER, sam.Attribs.BindPoint + i)

\* The static bindings of the layout that have a sampler slot in the cache
WithSampler == {r \in DOMAIN StaticBindings : IsValidSampler(StaticBindings[r])}

SamplerOf(r) == GetAssignedSampler(layouts["srb"], StaticBindings[r])

\* C6: CopyStaticResourceDesriptorHandles called a second time right after a
\* first call that returned, with the same layouts and the same source cache,
\* writes no slot of the destination cache, copies no descriptor and fails no
\* assertion: the destination cache is the one the first call left.
C6_CopyIsIdempotent ==
    [][ (lastOp.op = "CopyStatic" /\ lastOp'.op = "CopyStatic")
        => /\ lastOp'.again
           /\ cache' = cache
           /\ lastOp'.copies = 0
           /\ ~aborted' ]_vars

\* The copy ran twice and the first run had a static texture and its sampler to copy
C6_Witness ==
    /\ lastOp.op = "CopyStatic" /\ lastOp.again /\ ~aborted
    /\ lastOp.copies = 0
    /\ \E r \in WithSampler :
          /\ SlotOf(cache["srb"], StaticBindings[r], 0).pObject # Null
          /\ SlotOf(cache["srb"], StaticBindings[r], 0) = SrcSlotOf(StaticBindings[r], 0)
          /\ SlotOf(cache["srb"], SamplerOf(r), 0).pObject # Null
          /\ SlotOf(cache["srb"], SamplerOf(r), 0) = SrcSamplerSlotOf(SamplerOf(r), 0)

\* A slot of a static binding, or of its sampler, holds an object that is not
\* the object at its place in the source cache
AssignedOtherIn(c) ==
    \/ \E r \in DOMAIN StaticBindings : \E i \in 0..(StaticBindings[r].Attribs.BindCount - 1) :
          /\ SlotOf(c, StaticBindings[r], i).pObject # Null
          /\ SlotOf(c, StaticBindings[r], i).pObject # SrcSlotOf(StaticBindings[r], i).pObject
    \/ \E r \in WithSampler : \E i \in 0..(SamplerOf(r).Attribs.BindCount - 1) :
          /\ SlotOf(c, SamplerOf(r), i).pObject # Null
          /\ SlotOf(c, SamplerOf(r), i).pObject # SrcSamplerSlotOf(SamplerOf(r), i).pObject

\* The slots of that kind keep what they hold
AssignedOtherKept ==
    /\ \A r \in DOMAIN StaticBindings : \A i \in 0..(StaticBindings[r].Attribs.BindCount - 1) :
          (/\ SlotOf(cache["srb"], StaticBindings[r], i).pObject # Null
           /\ SlotOf(cache["srb"], StaticBindings[r], i).pObject # SrcSlotOf(StaticBindings[r], i).pObject)
          => SlotOf(cache["srb"], StaticBindings[r], i)' = SlotOf(cache["srb"], StaticBindings[r], i)
    /\ \A r \in WithSampler : \A i \in 0..(SamplerOf(r).Attribs.BindCount - 1) :
          (/\ SlotOf(cache["srb"], SamplerOf(r), i).pObject # Null
           /\ SlotOf(cache["srb"], SamplerOf(r), i).pObject # SrcSamplerSlotOf(SamplerOf(r), i).pObject)
          => SlotOf(cache["srb"], SamplerOf(r), i)' = SlotOf(cache["srb"], SamplerOf(r), i)

----------------------------------------------------------------------------
(* C8, C9 *)

\* The places, in the array of all bindings of the layout, of the bindings with the name
Named(L, Name) == {r \in DOMAIN AllSrvCbvUav(L) : AllSrvCbvUav(L)[r].Attribs.Name = Name}

\* The layout the last GetShaderVariable call was made on
OpLayout == layouts[lastOp.layout]

\* C8: GetShaderVariable with a name no binding of the layout carries returns
\* null and logs one message; with a name a binding carries it returns a
\* binding of the layout with that name and logs nothing.
C8_LookupByName ==
    lastOp.op = "GetShaderVariable" =>
        IF Named(OpLayout, lastOp.name) = {}
        THEN lastOp.ret = 0 /\ Len(lastOp.log) = 1
        ELSE lastOp.ret \in Named(OpLayout, lastOp.name) /\ lastOp.log = << >>

\* The place of the resource of a binding in the reflection of the shader
DeclIndex(b) == CHOOSE i \in DOMAIN shader.Resources : shader.Resources[i] = b.Attribs

\* The place of a variable type in the array of all bindings
Rank(VarType) == CHOOSE i \in DOMAIN VarTypeOrder : VarTypeOrder[i] = VarType

\* The last call looked a name up in a layout built by Initialize
IsInitializedLookup ==
    lastOp.op = "GetShaderVariable" /\ lastOp.layout \in {"stat", "ref"}

\* C9 as stated: of the resources that carry one name, the lookup of a layout
\* built by Initialize returns the one declared last.
C9_LastDeclaredWins ==
    (IsInitializedLookup /\ Named(OpLayout, lastOp.name) # {}) =>
        /\ lastOp.ret \in Named(OpLayout, lastOp.name)
        /\ \A r \in Named(OpLayout, lastOp.name) :
              DeclIndex(AllSrvCbvUav(OpLayout)[r]) <= DeclIndex(AllSrvCbvUav(OpLayout)[lastOp.ret])

\* C9 amended: of the resources that carry one name, the lookup of a layout
\* built by Initialize returns the first in the array of bindings: the one of
\* the first variable type in the order static, mutable, dynamic and, within a
\* variable type, the one declared first; with the hash map and with the
\* linear search alike.
C9_FirstBindingWins ==
    (IsInitializedLookup /\ Named(OpLayout, lastOp.name) # {}) =>
        /\ lastOp.ret \in Named(OpLayout, lastOp.name)
        /\ \A r \in Named(OpLayout, lastOp.name) \ {lastOp.ret} :
              LET won == AllSrvCbvUav(OpLayout)[lastOp.ret]
                  lost == AllSrvCbvUav(OpLayout)[r]
              IN \/ Rank(won.Attribs.VarType) < Rank(lost.Attribs.VarType)
                 \/ /\ won.Attribs.VarType = lost.Attribs.VarType
                    /\ DeclIndex(won) < DeclIndex(lost)

\* The hash map resolved a name two mutable resources carry
C9_Witness ==
    /\ IsInitializedLookup
    /\ build.USE_VARIABLE_HASH_MAP
    /\ lastOp.ret # 0
    /\ \E r \in Named(OpLayout, lastOp.name) \ {lastOp.ret} :
          AllSrvCbvUav(OpLayout)[r].Attribs.VarType
              = AllSrvCbvUav(OpLayout)[lastOp.ret].Attribs.VarType

----------------------------------------------------------------------------
(* C10 *)

\* The slots of a layout in the order BindResources visits them
SlotSeq(L) ==
    LET all == AllSrvCbvUav(L)
        RECURSIVE From(_, _)
        From(r, i) == IF r > Len(all) THEN << >>
                      ELSE IF i >= all[r].Attribs.BindCount THEN From(r + 1, 0)
                      ELSE << [b |-> all[r], i |-> i] >> \o From(r, i + 1)
    IN From(1, 0)

\* The place in that order of the first slot that is bound, 0 when none is
FirstBound(c, L) ==
    LET s == SlotSeq(L)
        bound == {k \in DOMAIN s : IsBound(c, s[k].b, s[k].i)}
    IN IF bound = {} THEN 0 ELSE CHOOSE k \in bound : \A j \in bound : k <= j

\* The call of the step is BindResources with a mapping, with
\* UPDATE_UNRESOLVED and without RESET_BINDINGS
IsUnresolvedOnlyPass(op) ==
    /\ op.op = "BindResources" /\ op.map # 0
    /\ "UPDATE_UNRESOLVED" \in op.flags /\ "RESET_BINDINGS" \notin op.flags

\* C10: BindResources with UPDATE_UNRESOLVED and without RESET_BINDINGS ends at
\* the first slot, in the order of the bindings and of their array elements,
\* that is bound: that slot and the slots after it keep what they hold and are
\* not looked up in the mapping; each slot before it is looked up and takes the
\* object of the mapping unless the mapping has none or BindResource refuses it.
C10_UnresolvedOnlyStopsPass ==
    [][ (IsUnresolvedOnlyPass(lastOp') /\ FirstBound(cache[lastOp'.layout], OpLayout') # 0)
        => LET s == SlotSeq(OpLayout')
               k == FirstBound(cache[lastOp'.layout], OpLayout')
               mapping == Mappings[lastOp'.map]
           IN /\ lastOp'.lookups = k - 1
              /\ \A j \in k..Len(s) :
                    SlotOf(cache'[lastOp'.layout], s[j].b, s[j].i)
                       = SlotOf(cache[lastOp'.layout], s[j].b, s[j].i)
              /\ \A j \in 1..(k - 1) :
                    LET pObj == mapping[s[j].b.Attribs.Name][s[j].i]
                    IN IF pObj # Null /\ ~Refused(s[j].b.ResType, pObj)
                       THEN SlotOf(cache'[lastOp'.layout], s[j].b, s[j].i).pObject = pObj
                       ELSE SlotOf(cache'[lastOp'.layout], s[j].b, s[j].i) = NullResource ]_vars

\* The pass bound a slot, stopped at a bound slot and left a slot after it unbound
\* that the mapping has an object for
C10_Witness ==
    /\ IsUnresolvedOnlyPass(lastOp)
    /\ lastOp.lookups > 0
    /\ lastOp.lookups < NumSlots(OpLayout)
    /\ LET s == SlotSeq(OpLayout)
       IN /\ IsBound(cache[lastOp.layout], s[1].b, s[1].i)
          /\ IsBound(cache[lastOp.layout], s[lastOp.lookups + 1].b, s[lastOp.lookups + 1].i)
          /\ \E j \in (lastOp.lookups + 2)..Len(s) :
                /\ ~IsBound(cache[lastOp.layout], s[j].b, s[j].i)
                /\ Mappings[lastOp.map][s[j].b.Attribs.Name][s[j].i] # Null
                /\ Matches(s[j].b.ResType, Mappings[lastOp.map][s[j].b.Attribs.Name][s[j].i])

----------------------------------------------------------------------------
(* C11 *)

IsCloneCall(op) == op.op \in {"BindResource", "BindResources"} /\ op.layout \in {"srb", "srb2"}

\* C11: of two layouts cloned from one reference layout onto two caches, each
\* cache holds, after every interleaving of BindResource and BindResources
\* calls on the two, what the calls on its own layout alone leave in it; a call
\* on one layout changes no slot of the cache of the other and no binding of
\* any layout, the reference layout included.
C11_ClonesShareNoState ==
    /\ [](\A w \in ReadyClones : cache[w] = solo[w])
    /\ [][ IsCloneCall(lastOp')
            => /\ layouts' = layouts
               /\ rootSig' = rootSig
               /\ \A w \in {"srb", "srb2"} \ {lastOp'.layout} : cache'[w] = cache[w] ]_vars

\* Both caches hold objects, not the same ones, and the last call was made on
\* the second clone
C11_Witness ==
    /\ IsCloneCall(lastOp) /\ lastOp.layout = "srb2"
    /\ ReadyClones = {"srb", "srb2"}
    /\ \E r \in DOMAIN AllSrvCbvUav(layouts["srb"]) :
          LET b == AllSrvCbvUav(layouts["srb"])[r]
          IN /\ SlotOf(cache["srb"], b, 0).pObject # Null
             /\ SlotOf(cache["srb2"], b, 0).pObject # Null
             /\ SlotOf(cache["srb"], b, 0).pObject # SlotOf(cache["srb2"], b, 0).pObject

----------------------------------------------------------------------------
(* C12 *)

\* The resolved bindings of a layout
Bindings(L) ==
    [NumCbvSrvUav |-> L.NumCbvSrvUav, NumSamplers |-> L.NumSamplers,
     SrvCbvUav |-> L.SrvCbvUav, Samplers |-> L.Samplers]

IsCallOnLayout(op) ==
    op.op \in {"BindResource", "BindResources", "IsBound", "GetShaderVariable", "CopyStatic"}

\* C12: BindResource, BindResources, IsBound, GetShaderVariable and
\* CopyStaticResourceDesriptorHandles change no binding of any layout: the
\* numbers of bindings per variable type and the root index, offset, resource
\* type and sampler id of each binding stay as construction left them.
C12_CallsKeepBindings ==
    [][ IsCallOnLayout(lastOp')
        => \A w \in DOMAIN layouts : Bindings(layouts'[w]) = Bindings(layouts[w]) ]_vars

\* The copy of the static resources has written the cache of a layout with a
\* texture and its sampler
C12_Witness ==
    /\ lastOp.op = "CopyStatic" /\ lastOp.copies > 0
    /\ layouts["srb"].NumCbvSrvUav["Static"] > 0
    /\ layouts["srb"].NumSamplers["Static"] > 0
    /\ cache["srb"] # InitResourceCache(rootSig)

----------------------------------------------------------------------------
(* C17 *)

\* C17: IsBound returns true exactly when the slot of the binding and array
\* index is in the cache and holds an object; it returns false, without
\* failing, when the cache has no table of the root index of the binding or
\* the table ends before the slot; it changes nothing.
C17_IsBoundTellsSlot ==
    [][ lastOp'.op = "IsBound"
        => LET b == AllSrvCbvUav(layouts[lastOp'.layout])[lastOp'.r]
               c == cache[lastOp'.layout]
           IN /\ lastOp'.bound =
                    (/\ InCache(c, b.RootIndex, b.OffsetFromTableStart + lastOp'.idx)
                     /\ GetResource(c, b.RootIndex,
                                    b.OffsetFromTableStart + lastOp'.idx).pObject # Null)
              /\ ~aborted'
              /\ UNCHANGED <<layouts, rootSig, cache, built>> ]_vars

\* IsBound was asked about a slot of a cache that has no tables yet
C17_Witness ==
    /\ lastOp.op = "IsBound" /\ lastOp.layout = "srb2"
    /\ ~lastOp.bound /\ ~aborted
    /\ GetNumRootTables(cache["srb2"]) = 0
    /\ AllSrvCbvUav(layouts["srb2"])[lastOp.r].RootIndex >= GetNumRootTables(cache["srb2"])

----------------------------------------------------------------------------
(* C13 *)

\* The call of the step is BindResources on a fresh cache with a mapping that
\* has an object of the right category for every element
IsCompleteFirstPass(op) ==
    /\ op.op = "BindResources" /\ op.map # 0
    /\ CompleteFor(Mappings[op.map], layouts[op.layout])
    /\ FreshCache(cache[op.layout])

\* The slot of the sampler the elements of texM share
SharedSamplerSlot(c, L) == SlotOf(c, L.Samplers["Mutable"][1], 0)

\* C13 as stated: after BindResources with a mapping that provides the three
\* names every resource element is bound and the slot of the paired sampler
\* is still unbound.
C13_SamplerStaysUnbound ==
    [][ IsCompleteFirstPass(lastOp')
        => /\ AllBound(cache'[lastOp'.layout], layouts[lastOp'.layout], AllVarTypes)
           /\ SharedSamplerSlot(cache'[lastOp'.layout], layouts[lastOp'.layout]).pObject
                 = Null ]_vars

\* The sampler the pass leaves in the shared slot: each element takes the
\* sampler of its view when the view carries one, after RESET_BINDINGS has
\* emptied the slot for this element
RECURSIVE SamplerLeft(_, _, _, _)
SamplerLeft(mapping, Flags, i, held) ==
    IF i >= ScenarioBindCount THEN held
    ELSE LET emptied == IF "RESET_BINDINGS" \in Flags THEN Null ELSE held
             ofView == ObjDesc[mapping["texM"][i]].Sampler
         IN SamplerLeft(mapping, Flags, i + 1, IF ofView # Null THEN ofView ELSE emptied)

\* C13 amended: after BindResources with a mapping that provides the three
\* names every resource element is bound, and the same call has put into the
\* slot of the paired sampler the sampler of the last texture view that
\* carries one; the slot is unbound only when no such view is left by the pass.
C13_SamplerBoundWithTexture ==
    [][ IsCompleteFirstPass(lastOp')
        => /\ AllBound(cache'[lastOp'.layout], layouts[lastOp'.layout], AllVarTypes)
           /\ SharedSamplerSlot(cache'[lastOp'.layout], layouts[lastOp'.layout]).pObject
                 = SamplerLeft(Mappings[lastOp'.map], lastOp'.flags, 0, Null)
           /\ ~aborted' ]_vars

\* The pass found no slot bound, bound the five elements and left a sampler in
\* the shared slot
C13_Witness ==
    /\ lastOp.op = "BindResources" /\ lastOp.map # 0
    /\ CompleteFor(Mappings[lastOp.map], layouts[lastOp.layout])
    /\ lastOp.flags = {"UPDATE_UNRESOLVED"}
    /\ lastOp.lookups = ScenarioBindCount + 2
    /\ AllBound(cache[lastOp.layout], layouts[lastOp.layout], AllVarTypes)
    /\ SharedSamplerSlot(cache[lastOp.layout], layouts[lastOp.layout]).pObject # Null

----------------------------------------------------------------------------
(* C14 *)

\* The resource bindings and the sampler bindings of a layout
AllSamplers(L) == L.Samplers["Static"] \o L.Samplers["Mutable"] \o L.Samplers["Dynamic"]
SlotRanges(L) ==
    {[RootIndex |-> b.RootIndex, Offset |-> b.OffsetFromTableStart,
      BindCount |-> b.Attribs.BindCount] :
        b \in {AllSrvCbvUav(L)[r] : r \in 1..Len(AllSrvCbvUav(L))}
               \cup {AllSamplers(L)[k] : k \in 1..Len(AllSamplers(L))}}

\* The capacity of a table of the static resource cache
Capacity(RangeType) == GetSize(GetRootTable(cache["stat"], RangeType))

\* The layout of the scenario, initialized with every variable type
IsScenarioLayout ==
    /\ "stat" \in built /\ shader = ShaderScenario
    /\ GetTotalSrvCbvUavCount(layouts["stat"]) = Len(ShaderScenario.Resources)

\* C14: after Initialize without a root signature every slot a resource or
\* sampler binding can address lies inside the cache table of its root index;
\* in the scenario the tables hold at least 1 CBV, 3 SRVs, 1 UAV and 1 sampler.
C14_SlotsInsideTables ==
    /\ "stat" \in built =>
          \A b \in SlotRanges(layouts["stat"]) : \A i \in 0..(b.BindCount - 1) :
              InCache(cache["stat"], b.RootIndex, b.Offset + i)
    /\ IsScenarioLayout =>
          /\ Capacity(D3D12_DESCRIPTOR_RANGE_TYPE_CBV) >= 1
          /\ Capacity(D3D12_DESCRIPTOR_RANGE_TYPE_SRV) >= ScenarioBindCount
          /\ Capacity(D3D12_DESCRIPTOR_RANGE_TYPE_UAV) >= 1
          /\ Capacity(D3D12_DESCRIPTOR_RANGE_TYPE_SAMPLER) >= 1

\* The layout of the scenario is initialized: its texture array addresses
\* three slots of the SRV table
C14_Witness ==
    /\ IsScenarioLayout
    /\ \E b \in SlotRanges(layouts["stat"]) :
          /\ b.BindCount = ScenarioBindCount
          /\ b.RootIndex = D3D12_DESCRIPTOR_RANGE_TYPE_SRV
          /\ InCache(cache["stat"], b.RootIndex, b.Offset + b.BindCount - 1)

----------------------------------------------------------------------------
(* C15 *)

\* The largest bind point + bind count of the bindings of one table, 0 when
\* the table has none
RECURSIVE MaxEnd(_)
MaxEnd(ranges) ==
    IF ranges = {} THEN 0
    ELSE LET b == CHOOSE x \in ranges : TRUE
         IN Max(b.Offset + b.BindCount, MaxEnd(ranges \ {b}))

EndOfTable(L, RangeType) == MaxEnd({b \in SlotRanges(L) : b.RootIndex = RangeType})

\* C15 as stated: after Initialize without a root signature each of the four
\* tables of the cache has exactly the size max(bind point + bind count) of
\* the resources assigned to it, and size 0 when none is assigned to it.
C15_TablesSizedExactly ==
    "stat" \in built =>
        \A t \in {D3D12_DESCRIPTOR_RANGE_TYPE_SRV, D3D12_DESCRIPTOR_RANGE_TYPE_UAV,
                   D3D12_DESCRIPTOR_RANGE_TYPE_CBV, D3D12_DESCRIPTOR_RANGE_TYPE_SAMPLER} :
            Capacity(t) = EndOfTable(layouts["stat"], t)

----------------------------------------------------------------------------
(* C16 *)

\* The fixed table of a kind of resource
FixedTable(ResType) ==
    CASE ResType = "CBV" -> D3D12_DESCRIPTOR_RANGE_TYPE_CBV
      [] ResType \in {"TexSRV", "BufSRV"} -> D3D12_DESCRIPTOR_RANGE_TYPE_SRV
      [] ResType \in {"TexUAV", "BufUAV"} -> D3D12_DESCRIPTOR_RANGE_TYPE_UAV

\* The same resources, enumerated from the last to the first
Reversed(resources) ==
    [resources EXCEPT !.Resources =
        [k \in 1..Len(resources.Resources) |->
            resources.Resources[Len(resources.Resources) + 1 - k]]]

\* Where Initialize without a root signature puts the resources and samplers
StaticSlots(resources, allowed) ==
    LET L == InitializeLayout(resources, allowed, << >>, FALSE, FALSE).layout
    IN [res |-> {[Name |-> b.Attribs.Name, ResType |-> b.ResType,
                  BindPoint |-> b.Attribs.BindPoint, RootIndex |-> b.RootIndex,
                  Offset |-> b.OffsetFromTableStart] :
                     b \in {AllSrvCbvUav(L)[r] : r \in 1..Len(AllSrvCbvUav(L))}},
        sam |-> {[Name |-> b.Attribs.Name, RootIndex |-> b.RootIndex,
                  Offset |-> b.OffsetFromTableStart] :
                     b \in {AllSamplers(L)[k] : k \in 1..Len(AllSamplers(L))}}]

SlotsAreFixed ==
    "stat" \in built =>
        LET L == layouts["stat"]
        IN /\ \A r \in 1..Len(AllSrvCbvUav(L)) :
                LET b == AllSrvCbvUav(L)[r]
                IN /\ b.RootIndex = FixedTable(b.ResType)
                   /\ b.OffsetFromTableStart = b.Attribs.BindPoint
           /\ \A k \in 1..Len(AllSamplers(L)) :
                LET b == AllSamplers(L)[k]
                IN /\ ~b.Attribs.Static
                   /\ b.RootIndex = D3D12_DESCRIPTOR_RANGE_TYPE_SAMPLER
                   /\ b.OffsetFromTableStart = b.Attribs.BindPoint
           /\ \A allowed \in Filters :
                StaticSlots(shader, allowed) = StaticSlots(Reversed(shader), allowed)

\* C16: without a root signature every resource is in the fixed table of its
\* kind (constant buffers in CBV, texture and buffer SRVs in SRV, texture and
\* buffer UAVs in UAV, non-static samplers in SAMPLER) at the offset of its
\* bind point, whatever the order of enumeration, and Initialize makes no
\* request to an allocator.
C16_StaticModeSlotsAreFixed ==
    /\ []SlotsAreFixed
    /\ [][ lastOp'.op = "Initialize" /\ lastOp'.layout = "stat"
           => lastOp'.lookups = 0 /\ rootSig' = rootSig ]_vars

\* A layout with a constant buffer, two textures and their two samplers was
\* initialized without a root signature, one texture away from bind point 0
C16_Witness ==
    /\ lastOp.op = "Initialize" /\ lastOp.layout = "stat"
    /\ Len(AllSamplers(layouts["stat"])) = 2
    /\ \E r \in 1..Len(AllSrvCbvUav(layouts["stat"])) :
          /\ AllSrvCbvUav(layouts["stat"])[r].ResType = "TexSRV"
          /\ AllSrvCbvUav(layouts["stat"])[r].OffsetFromTableStart > 0
    /\ \E r \in 1..Len(AllSrvCbvUav(layouts["stat"])) :
          AllSrvCbvUav(layouts["stat"])[r].ResType = "CBV"

----------------------------------------------------------------------------
(* C18 *)

\* The sampler the shader declares for a texture, when it is not static
HasOwnSampler(b) ==
    /\ b.ResType = "TexSRV" /\ b.Attribs.SamplerId # InvalidSamplerId
    /\ ~shader.Samplers[b.Attribs.SamplerId].Static
DeclaredSampler(b) == shader.Samplers[b.Attribs.SamplerId]

\* How many samplers of one variable type are among the first k resolved names
SamplersResolved(order, VarType, k) ==
    Cardinality({j \in 1..k : \E q \in 1..Len(shader.Samplers) :
                    /\ shader.Samplers[q].Name = order[j]
                    /\ shader.Samplers[q].VarType = VarType})

\* C18: Initialize resolves the slot of a non-static sampler right before the
\* slot of its texture, and the texture records the place that sampler took in
\* the array of the samplers of the variable type of the texture.
C18_SamplerResolvedBeforeTexture ==
    lastOp.op = "Initialize" =>
        LET L == layouts[lastOp.layout]
        IN \A r \in 1..Len(AllSrvCbvUav(L)) :
              LET b == AllSrvCbvUav(L)[r]
                  vt == b.Attribs.VarType
              IN HasOwnSampler(b) =>
                    /\ IsValidSampler(b)
                    /\ b.SamplerId \in 1..Len(L.Samplers[vt])
                    /\ GetAssignedSampler(L, b).Attribs = DeclaredSampler(b)
                    /\ \E k \in 1..(Len(lastOp.order) - 1) :
                          /\ lastOp.order[k] = DeclaredSampler(b).Name
                          /\ lastOp.order[k + 1] = b.Attribs.Name
                          /\ b.SamplerId = SamplersResolved(lastOp.order, vt, k)

\* The pipeline state initialized a layout with two textures and their
\* samplers: five slots were requested from the allocator
C18_Witness ==
    /\ lastOp.op = "Initialize" /\ lastOp.layout = "ref"
    /\ Len(lastOp.order) = 5 /\ lastOp.lookups = 5
    /\ \E r \in 1..Len(AllSrvCbvUav(layouts["ref"])) :
          /\ HasOwnSampler(AllSrvCbvUav(layouts["ref"])[r])
          /\ AllSrvCbvUav(layouts["ref"])[r].Attribs.VarType = "Dynamic"

----------------------------------------------------------------------------
(* C19 *)

\* The texture is declared with a static sampler
HasStaticSampler(b) ==
    /\ b.ResType = "TexSRV" /\ b.Attribs.SamplerId # InvalidSamplerId
    /\ shader.Samplers[b.Attribs.SamplerId].Static

\* The slots of a cache, and the slots the bindings of a layout address
CacheSlots(c) ==
    UNION {{<<t, o>> : o \in 0..(GetSize(GetRootTable(c, t)) - 1)} :
              t \in 0..(GetNumRootTables(c) - 1)}
Addressed(L) ==
    UNION {{<<b.RootIndex, b.Offset + i>> : i \in 0..(b.BindCount - 1)} : b \in SlotRanges(L)}

\* No layout holds a place for a static sampler, no cache holds a sampler
\* outside the slots of the sampler bindings
StaticSamplerHasNoPlace ==
    /\ \A w \in built :
          LET L == layouts[w]
              all == {AllSrvCbvUav(L)[r] : r \in 1..Len(AllSrvCbvUav(L))}
          IN /\ \A b \in all : HasStaticSampler(b) => b.SamplerId = InvalidSamplerId
             /\ \A k \in 1..Len(AllSamplers(L)) : ~AllSamplers(L)[k].Attribs.Static
             /\ \A v \in VarTypes :
                   /\ L.NumSamplers[v] = Len(L.Samplers[v])
                   /\ L.NumSamplers[v] =
                        Cardinality({b \in all : b.Attribs.VarType = v /\ HasOwnSampler(b)})
    /\ \A w \in Bindable : \A s \in CacheSlots(cache[w]) :
          GetResource(cache[w], s[1], s[2]).Type = "Sampler"
              => \E k \in 1..Len(AllSamplers(layouts[w])) :
                    LET sam == AllSamplers(layouts[w])[k]
                    IN /\ s[1] = sam.RootIndex
                       /\ s[2] \in sam.OffsetFromTableStart
                                     ..(sam.OffsetFromTableStart + sam.Attribs.BindCount - 1)

\* What a call may change in the cache on behalf of a texture with a static
\* sampler: the slot of the texture and nothing else
WritesOwnSlotsOnly ==
    LET w == lastOp'.layout
    IN /\ lastOp'.op \in {"BindResource", "BindResources", "CopyStatic"} =>
             \A s \in CacheSlots(cache[w]) :
                 GetResource(cache'[w], s[1], s[2]) # GetResource(cache[w], s[1], s[2])
                     => s \in Addressed(layouts[w])
       /\ lastOp'.op = "BindResource" /\ HasStaticSampler(AllSrvCbvUav(layouts[w])[lastOp'.r]) =>
             LET b == AllSrvCbvUav(layouts[w])[lastOp'.r]
             IN /\ \A s \in CacheSlots(cache[w]) :
                      s # <<b.RootIndex, b.OffsetFromTableStart + lastOp'.idx>>
                          => GetResource(cache'[w], s[1], s[2]) = GetResource(cache[w], s[1], s[2])
                /\ \A j \in 1..Len(lastOp'.log) :
                      lastOp'.log[j] \notin {"SamplerAlreadyBound", "SamplerNotSet"}

\* C19: a texture with a static sampler has the invalid sampler id, no sampler
\* binding is counted or constructed for the static sampler, and no call of
\* BindResource, BindResources or CopyStaticResourceDesriptorHandles writes a
\* slot of a cache for it.
C19_StaticSamplerNeverCached ==
    []StaticSamplerHasNoPlace /\ [][WritesOwnSlotsOnly]_vars

\* A texture view that carries a sampler was bound to the texture with the
\* static sampler in the cache of the binding object
C19_Witness ==
    /\ lastOp.op = "BindResource" /\ lastOp.layout = "srb" /\ lastOp.obj = "tv1"
    /\ HasStaticSampler(AllSrvCbvUav(layouts["srb"])[lastOp.r])
    /\ SlotOf(cache["srb"], AllSrvCbvUav(layouts["srb"])[lastOp.r], 0).pObject = "tv1"
    /\ \E r \in 1..Len(AllSrvCbvUav(layouts["srb"])) :
          LET b == AllSrvCbvUav(layouts["srb"])[r]
          IN HasOwnSampler(b) /\ SlotOf(cache["srb"], GetAssignedSampler(layouts["srb"], b), 0).pObject # Null

----------------------------------------------------------------------------
(* C20 *)

\* C20: in every layout, initialized or cloned, a texture binding with a valid
\* sampler id refers to a sampler binding the layout holds for the variable
\* type of the texture, with the bind count of the texture or with bind count 1.
C20_SamplerIdRefersToOwnSampler ==
    \A w \in built :
        LET L == layouts[w]
        IN \A r \in 1..Len(AllSrvCbvUav(L)) :
              LET b == AllSrvCbvUav(L)[r]
                  vt == b.Attribs.VarType
              IN IsValidSampler(b) =>
                    /\ b.ResType = "TexSRV"
                    /\ b.SamplerId \in 1..Len(L.Samplers[vt])
                    /\ b.SamplerId <= L.NumSamplers[vt]
                    /\ GetAssignedSampler(L, b).Attribs.VarType = vt
                    /\ GetAssignedSampler(L, b).Attribs.BindCount \in {b.Attribs.BindCount, 1}

\* A clone holds a texture array of three elements that share one sampler
C20_Witness ==
    /\ "srb" \in built /\ lastOp.op = "Clone"
    /\ \E r \in 1..Len(AllSrvCbvUav(layouts["srb"])) :
          LET b == AllSrvCbvUav(layouts["srb"])[r]
          IN /\ IsValidSampler(b)
             /\ b.Attribs.BindCount = ScenarioBindCount
             /\ GetAssignedSampler(layouts["srb"], b).Attribs.BindCount = 1

----------------------------------------------------------------------------
(* C21 *)

\* The resource bindings of a layout followed by its sampler bindings
AllBindings(L) == AllSrvCbvUav(L) \o AllSamplers(L)

\* The slots a binding addresses
SlotsOf(b) ==
    {<<b.RootIndex, b.OffsetFromTableStart + i>> : i \in 0..(b.Attribs.BindCount - 1)}

RangesDisjoint ==
    \A w \in built :
        \A p, q \in 1..Len(AllBindings(layouts[w])) :
            p # q => SlotsOf(AllBindings(layouts[w])[p])
                        \cap SlotsOf(AllBindings(layouts[w])[q]) = {}

\* The slots a BindResource call on element idx of binding b may write
OwnSlots(L, b, idx) ==
    {<<b.RootIndex, b.OffsetFromTableStart + idx>>}
        \cup (IF b.ResType = "TexSRV" /\ IsValidSampler(b)
              THEN SlotsOf(GetAssignedSampler(L, b)) ELSE {})

\* C21: no two bindings of a layout, resource or sampler bindings, address a
\* common slot of the cache, and binding or unbinding one variable changes no
\* slot but its own and the slot of its paired sampler.
C21_BindingsAddressDisjointSlots ==
    /\ []RangesDisjoint
    /\ [][ lastOp'.op = "BindResource" =>
             \A s \in CacheSlots(cache[lastOp'.layout]) :
                 GetResource(cache'[lastOp'.layout], s[1], s[2])
                       # GetResource(cache[lastOp'.layout], s[1], s[2])
                    => s \in OwnSlots(layouts[lastOp'.layout],
                                      AllSrvCbvUav(layouts[lastOp'.layout])[lastOp'.r],
                                      lastOp'.idx) ]_vars

\* A buffer view was bound to the buffer SRV that shares the SRV table of the
\* static cache with a texture, while the texture stays bound
C21_Witness ==
    /\ lastOp.op = "BindResource" /\ lastOp.layout = "stat" /\ lastOp.obj = "bvSRV"
    /\ \E p, q \in 1..Len(AllSrvCbvUav(layouts["stat"])) :
          LET a == AllSrvCbvUav(layouts["stat"])[p]
              b == AllSrvCbvUav(layouts["stat"])[q]
          IN /\ p # q /\ a.RootIndex = b.RootIndex /\ q = lastOp.r
             /\ SlotOf(cache["stat"], a, 0).pObject = "tv1"
             /\ SlotOf(cache["stat"], b, 0).pObject = "bvSRV"

----------------------------------------------------------------------------
(* C22 *)

\* The call of the step is BindResources with a mapping and without RESET_BINDINGS
IsKeepingPass(op) ==
    op.op = "BindResources" /\ op.map # 0 /\ "RESET_BINDINGS" \notin op.flags

\* The place of the slot at which the pass returns, 0 when it visits every slot
StopPlace(op, c, L) ==
    IF "UPDATE_UNRESOLVED" \in op.flags THEN FirstBound(c, L) ELSE 0

Visited(k, j) == k = 0 \/ j < k

\* C22: in BindResources without RESET_BINDINGS a slot the pass visits and whose
\* name and array index the mapping does not have keeps its object, type and
\* handle, and the pass goes on: the slots it visits after it are looked up
\* and take the object of the mapping.
C22_MissingKeepsSlotAndGoesOn ==
    [][ IsKeepingPass(lastOp')
        => LET w == lastOp'.layout
               s == SlotSeq(layouts[w])
               k == StopPlace(lastOp', cache[w], layouts[w])
               mapping == Mappings[lastOp'.map]
           IN \A j \in 1..Len(s) :
                 (Visited(k, j) /\ mapping[s[j].b.Attribs.Name][s[j].i] = Null)
                 => /\ SlotOf(cache'[w], s[j].b, s[j].i) = SlotOf(cache[w], s[j].b, s[j].i)
                    /\ lastOp'.lookups >= j
                    /\ \A n \in (j + 1)..Len(s) :
                          LET pObj == mapping[s[n].b.Attribs.Name][s[n].i]
                          IN Visited(k, n) =>
                                /\ lastOp'.lookups >= n
                                /\ (pObj # Null /\ ~Refused(s[n].b.ResType, pObj))
                                      => SlotOf(cache'[w], s[n].b, s[n].i).pObject = pObj ]_vars

\* A pass left the object of a slot its mapping does not have and bound a
\* slot after it
C22_Witness ==
    /\ IsKeepingPass(lastOp) /\ lastOp.flags = {}
    /\ LET s == SlotSeq(layouts[lastOp.layout])
           mapping == Mappings[lastOp.map]
       IN \E j \in 1..Len(s) : \E n \in (j + 1)..Len(s) :
             /\ mapping[s[j].b.Attribs.Name][s[j].i] = Null
             /\ SlotOf(cache[lastOp.layout], s[j].b, s[j].i).pObject # Null
             /\ mapping[s[n].b.Attribs.Name][s[n].i] # Null
             /\ SlotOf(cache[lastOp.layout], s[n].b, s[n].i).pObject
                   = mapping[s[n].b.Attribs.Name][s[n].i]

----------------------------------------------------------------------------
(* C23 *)
\* C23: IsIncompatibleWith answers true exactly when the shader resource layout
\* hashes of the two pipeline states differ: the answer is the same with the two
\* pipeline states exchanged, and it is false for a pipeline state compared with
\* itself or with one of equal hash.
C23_IncompatibleIffHashesDiffer ==
    lastOp.op = "IsIncompatibleWith" =>
        LET this == lastOp.args[1]
            pPSO == lastOp.args[2]
        IN /\ lastOp.ret = (m_ShaderResourceLayoutHash[this] # m_ShaderResourceLayoutHash[pPSO])
           /\ lastOp.ret = IsIncompatibleWith(pPSO, this)
           /\ this = pPSO => lastOp.ret = FALSE

\* Two different pipeline states of equal hash have been compared
C23_Witness ==
    /\ lastOp.op = "IsIncompatibleWith"
    /\ lastOp.args[1] # lastOp.args[2]
    /\ m_ShaderResourceLayoutHash[lastOp.args[1]] = m_ShaderResourceLayoutHash[lastOp.args[2]]
    /\ lastOp.ret = FALSE

----------------------------------------------------------------------------
(* C24 *)
IsCommit(op) == op.op = "CommitShaderResources"

\* The binding object given belongs to a pipeline state of another hash than the one bound
IncompatibleWithBound(dc, pShaderResourceBinding) ==
    /\ dc.m_pPipelineState # Null
    /\ pShaderResourceBinding # Null
    /\ m_ShaderResourceLayoutHash[dc.m_pPipelineState]
           # m_ShaderResourceLayoutHash[GetPipelineState[pShaderResourceBinding]]

\* C24: in a development build CommitShaderResources returns false and logs an error
\* when no pipeline state is bound, returns false and logs an error when the binding
\* object given belongs to a pipeline state incompatible with the bound one, and
\* returns true otherwise, a null binding object included; it never changes what
\* the context caches.
C24_CommitChecksAndChangesNothing ==
    [][(tick' # tick /\ IsCommit(lastOp')) =>
          /\ deviceContext' = deviceContext
          /\ deviceContext.m_pPipelineState = Null =>
                 lastOp'.ret = FALSE /\ lastOp'.log = <<"NoPipelineStateBound">>
          /\ IncompatibleWithBound(deviceContext, lastOp'.obj) =>
                 lastOp'.ret = FALSE /\ lastOp'.log = <<"IncompatibleShaderResourceBinding">>
          /\ (deviceContext.m_pPipelineState # Null
                  /\ ~IncompatibleWithBound(deviceContext, lastOp'.obj)) =>
                 lastOp'.ret = TRUE /\ lastOp'.log = << >>]_vars

\* A binding object of an incompatible pipeline state has been refused by a context
\* that holds a swap chain
C24_Witness ==
    /\ IsCommit(lastOp)
    /\ IncompatibleWithBound(deviceContext, lastOp.obj)
    /\ deviceContext.m_pSwapChain # Null
    /\ lastOp.ret = FALSE

----------------------------------------------------------------------------
(* C25 *)
IsSetRenderTargets(op) == op.op = "SetRenderTargets"

\* The call asks for the default framebuffer
IsDefaultFramebuffer(args) == args[1] = << >> /\ args[2] = Null

\* The views a call caches: those of the swap chain for the default framebuffer,
\* those given otherwise
ViewsToCache(dc, args) ==
    IF IsDefaultFramebuffer(args)
    THEN << <<SwapChainDesc[dc.m_pSwapChain].CurrentBackBufferRTV>>,
            SwapChainDesc[dc.m_pSwapChain].DepthBufferDSV >>
    ELSE args

\* A render target view or the depth stencil view differs from the cached one
ViewDiffers(dc, views) ==
    \/ \E rt \in 1..Len(views[1]) : views[1][rt] # dc.m_pBoundRenderTargets[rt - 1]
    \/ views[2] # dc.m_pBoundDepthStencil

\* The render targets and the depth stencil the context caches
CachedTargets(dc) ==
    <<dc.m_pBoundRenderTargets, dc.m_NumBoundRenderTargets, dc.m_pBoundDepthStencil>>

\* A call of SetRenderTargets that has a swap chain when it needs one
SetsRenderTargets(dc, op) ==
    /\ IsSetRenderTargets(op)
    /\ IsDefaultFramebuffer(op.args) => dc.m_pSwapChain # Null

----------------------------------------------------------------------------
(* C26 *)
\* The caches the layouts bind into
BoundCaches == built \cap {"stat", "srb"}

\* A slot holds an object exactly when it has a type
SlotIsWhole(res) == (res.pObject = Null) <=> (res.Type = "Unknown")

\* The slots of a binding that hold an object have the type given
SlotsTyped(c, b, Type) ==
    \A i \in 0..(b.Attribs.BindCount - 1) :
        SlotOf(c, b, i).pObject # Null => SlotOf(c, b, i).Type = Type

\* C26: no slot of a cache is partially bound: its object is null exactly when its
\* type is Unknown, and a slot of a resource binding that holds an object has the
\* resource type of the binding, a slot of a sampler binding the type Sampler,
\* whatever calls of BindResource, BindResources and
\* CopyStaticResourceDesriptorHandles were made, refused ones included.
C26_NoSlotPartiallyBound ==
    \A w \in BoundCaches :
        /\ \A s \in CacheSlots(cache[w]) : SlotIsWhole(GetResource(cache[w], s[1], s[2]))
        /\ \A r \in 1..Len(AllSrvCbvUav(layouts[w])) :
               SlotsTyped(cache[w], AllSrvCbvUav(layouts[w])[r], AllSrvCbvUav(layouts[w])[r].ResType)
        /\ \A k \in 1..Len(AllSamplers(layouts[w])) :
               SlotsTyped(cache[w], AllSamplers(layouts[w])[k], "Sampler")

\* An object of the wrong category was refused by a cache that holds a texture
\* view and its sampler
C26_Witness ==
    /\ IsBindCall(lastOp)
    /\ lastOp.log = << "IncorrectResourceType" >>
    /\ \E r \in 1..Len(AllSrvCbvUav(layouts[lastOp.layout])) :
          LET b == AllSrvCbvUav(layouts[lastOp.layout])[r]
          IN /\ IsValidSampler(b)
             /\ SlotOf(cache[lastOp.layout], b, 0).pObject # Null
             /\ SlotOf(cache[lastOp.layout], GetAssignedSampler(layouts[lastOp.layout], b), 0).Type
                    = "Sampler"

----------------------------------------------------------------------------
(* C27 *)
\* The messages of a call that did not cache what it was given
RefusalMessages ==
    {"IncorrectResourceType", "IncorrectViewType", "NoUniformBufferFlag", "SamplerNotSet"}

\* A BindResource call that was given an object and cached it
IsSuccessfulBind(op) ==
    /\ IsBindCall(op)
    /\ \A k \in 1..Len(op.log) : op.log[k] \notin RefusalMessages

\* The slot of the paired sampler that belongs to element i of a texture
PairedSamplerSlot(c, L, b, i) ==
    SlotOf(c, GetAssignedSampler(L, b),
           IF GetAssignedSampler(L, b).Attribs.BindCount > 1 THEN i ELSE 0)

\* Every slot of every sampler binding of a layout
SamplerSlots(c, L) ==
    [k \in 1..Len(AllSamplers(L)) |->
        [i \in 0..(AllSamplers(L)[k].Attribs.BindCount - 1) |-> SlotOf(c, AllSamplers(L)[k], i)]]

\* C27: a successful BindResource of a texture view to element i of a texture SRV
\* with a paired sampler that is not static leaves the sampler of the view in the
\* slot of the paired sampler, element i of the sampler when its bind count is
\* greater than 1 and element 0 when it is 1; a texture SRV without paired sampler
\* changes no sampler slot.
C27_BindCachesSamplerOfView ==
    [][(tick' # tick /\ IsSuccessfulBind(lastOp')) =>
          LET L == layouts[lastOp'.layout]
              b == OpBinding(lastOp')
          IN /\ SlotOf(cache'[lastOp'.layout], b, lastOp'.idx).pObject = lastOp'.obj
             /\ IsValidSampler(b) =>
                   /\ PairedSamplerSlot(cache'[lastOp'.layout], L, b, lastOp'.idx).pObject
                          = ObjDesc[lastOp'.obj].Sampler
                   /\ PairedSamplerSlot(cache'[lastOp'.layout], L, b, lastOp'.idx).Type
                          = "Sampler"
             /\ ~IsValidSampler(b) =>
                   SamplerSlots(cache'[lastOp'.layout], L) = SamplerSlots(cache[lastOp'.layout], L)
      ]_vars

\* A view was bound to the second element of an array whose elements share one
\* sampler, and the one sampler slot holds the sampler of that view
C27_Witness ==
    /\ IsSuccessfulBind(lastOp)
    /\ lastOp.idx = 1 /\ lastOp.obj = "tv2"
    /\ IsValidSampler(OpBinding(lastOp))
    /\ GetAssignedSampler(layouts[lastOp.layout], OpBinding(lastOp)).Attribs.BindCount = 1
    /\ PairedSamplerSlot(cache[lastOp.layout], layouts[lastOp.layout], OpBinding(lastOp), 1).pObject
           = "s2"
    /\ SlotOf(cache[lastOp.layout], OpBinding(lastOp), 0).pObject = "tv1"

----------------------------------------------------------------------------
(* C28 *)
\* The texture arrays of a layout whose elements share one sampler
SharedSamplerArrays(L) ==
    {r \in 1..Len(AllSrvCbvUav(L)) :
        /\ AllSrvCbvUav(L)[r].ResType = "TexSRV"
        /\ IsValidSampler(AllSrvCbvUav(L)[r])
        /\ AllSrvCbvUav(L)[r].Attribs.BindCount > 1
        /\ GetAssignedSampler(L, AllSrvCbvUav(L)[r]).Attribs.BindCount = 1}

\* An element of the array holds a view
SomeElementBound(c, b) ==
    \E i \in 0..(b.Attribs.BindCount - 1) : SlotOf(c, b, i).pObject # Null

\* C28: for a texture SRV array whose elements share one sampler, after any
\* sequence of BindResource calls on its elements, the views given all carrying a
\* sampler, the slot of the shared sampler holds a sampler whenever an element of
\* the array is bound.
C28_SharedSamplerBoundWithElements ==
    \A w \in BoundCaches :
        \A r \in SharedSamplerArrays(layouts[w]) :
            SomeElementBound(cache[w], AllSrvCbvUav(layouts[w])[r]) =>
                SlotOf(cache[w], GetAssignedSampler(layouts[w], AllSrvCbvUav(layouts[w])[r]), 0).pObject
                    # Null

----------------------------------------------------------------------------
(* C29 *)
\* The textures of a layout whose sampler has as many elements as the texture
SamplerPerElement(L) ==
    {r \in 1..Len(AllSrvCbvUav(L)) :
        /\ AllSrvCbvUav(L)[r].ResType = "TexSRV"
        /\ IsValidSampler(AllSrvCbvUav(L)[r])
        /\ GetAssignedSampler(L, AllSrvCbvUav(L)[r]).Attribs.BindCount
               = AllSrvCbvUav(L)[r].Attribs.BindCount}

\* The sampler slot of element i is empty or holds the sampler of the view bound at i
SamplerIsOfBoundView(c, L, b, i) ==
    \/ SlotOf(c, GetAssignedSampler(L, b), i).pObject = Null
    \/ /\ SlotOf(c, b, i).pObject # Null
       /\ SlotOf(c, GetAssignedSampler(L, b), i).pObject = ObjDesc[SlotOf(c, b, i).pObject].Sampler

\* C29: for a texture SRV whose sampler has the same bind count, in every state
\* BindResource calls reach, the sampler slot of element i is empty or holds the
\* sampler of the view bound at element i, never the sampler of a view that was
\* bound there before and has been replaced.
C29_SamplerSlotFollowsView ==
    \A w \in BoundCaches :
        \A r \in SamplerPerElement(layouts[w]) :
            \A i \in 0..(AllSrvCbvUav(layouts[w])[r].Attribs.BindCount - 1) :
                SamplerIsOfBoundView(cache[w], layouts[w], AllSrvCbvUav(layouts[w])[r], i)

----------------------------------------------------------------------------
(* C30 *)
\* BindResources with a resource mapping and the flag that resets the bindings
IsResettingPass(op) ==
    op.op = "BindResources" /\ op.map # 0 /\ "RESET_BINDINGS" \in op.flags

\* A cache of the same tables with every slot empty
Emptied(c) == [t \in DOMAIN c |-> [o \in DOMAIN c[t] |-> NullResource]]

\* The cache the same call leaves when it starts from the empty cache
FromEmptied(c, env, op) == BindResources(NewCtx(Emptied(c)), env, op.map, op.flags).c

\* The object is one BindResource caches for the resource type: a view of the
\* right class whose kind is looked at only in a build that verifies the bindings
Accepted(ResType, obj, verify) ==
    Matches(ResType, obj) \/ (~verify /\ WrongViewKindOnly(ResType, obj))

\* C30 as stated: with RESET_BINDINGS the cache after BindResources does not depend
\* on the cache before, and a resource slot is bound exactly when the mapping has
\* an object of the matching category for it.
C30_ResetBindsMatchingOnly ==
    [][(tick' # tick /\ IsResettingPass(lastOp')) =>
          LET w == lastOp'.layout
              all == AllSrvCbvUav(layouts[w])
              mapping == Mappings[lastOp'.map]
          IN /\ cache'[w] = FromEmptied(cache[w], Env(w), lastOp')
             /\ \A r \in 1..Len(all) : \A i \in 0..(all[r].Attribs.BindCount - 1) :
                    IsBound(cache'[w], all[r], i)
                        <=> /\ mapping[all[r].Attribs.Name][i] # Null
                            /\ Matches(all[r].ResType, mapping[all[r].Attribs.Name][i])
      ]_vars

\* C30 amended: with RESET_BINDINGS and a resource mapping the cache after
\* BindResources is the one the call leaves on an empty cache, whatever the cache
\* held before, and a resource slot is bound exactly when the mapping has an
\* object for it that BindResource accepts: one of the matching category, or, in
\* a build without VERIFY_SHADER_BINDINGS, a view of the right class and of
\* another kind.
C30_ResetForgetsPriorCache ==
    [][(tick' # tick /\ IsResettingPass(lastOp')) =>
          LET w == lastOp'.layout
              all == AllSrvCbvUav(layouts[w])
              mapping == Mappings[lastOp'.map]
          IN /\ cache'[w] = FromEmptied(cache[w], Env(w), lastOp')
             /\ \A r \in 1..Len(all) : \A i \in 0..(all[r].Attribs.BindCount - 1) :
                    IsBound(cache'[w], all[r], i)
                        <=> /\ mapping[all[r].Attribs.Name][i] # Null
                            /\ Accepted(all[r].ResType, mapping[all[r].Attribs.Name][i],
                                        build.VERIFY_SHADER_BINDINGS)
      ]_vars

\* A resetting pass with a mapping that misses elements has run on a cache whose
\* array was bound, and has left the missing element empty
C30_Witness ==
    /\ IsResettingPass(lastOp)
    /\ Mappings[lastOp.map] = MapPartial
    /\ \E k \in 1..Len(lastOp.log) : lastOp.log[k] = "Unbound"
    /\ \E r \in 1..Len(AllSrvCbvUav(layouts[lastOp.layout])) :
          LET b == AllSrvCbvUav(layouts[lastOp.layout])[r]
          IN /\ b.Attribs.BindCount > 1
             /\ ~IsBound(cache[lastOp.layout], b, 0)
             /\ IsBound(cache[lastOp.layout], b, 1)

----------------------------------------------------------------------------
(* C31 *)
\* The place at which a pass returns, 0 when it visits every slot: a pass that
\* resets the bindings finds no slot bound
PassEnd(op, c, L) ==
    IF "RESET_BINDINGS" \in op.flags THEN 0 ELSE StopPlace(op, c, L)

\* The slots a pass reaches, finds unbound and finds no object for in the mapping
MissingUnbound(op, c, L) ==
    {j \in DOMAIN SlotSeq(L) :
        /\ Visited(PassEnd(op, c, L), j)
        /\ Mappings[op.map][SlotSeq(L)[j].b.Attribs.Name][SlotSeq(L)[j].i] = Null
        /\ \/ "RESET_BINDINGS" \in op.flags
           \/ ~IsBound(c, SlotSeq(L)[j].b, SlotSeq(L)[j].i)}

\* C31: with ALL_RESOLVED BindResources reports a resource as not found once for
\* every slot it reaches whose name the mapping does not have and that is unbound
\* at that moment, not for a missing name whose slot is bound, and never without
\* the flag; with a null resource mapping it logs one error and leaves every slot
\* as it was.
C31_ReportsMissingUnboundOnly ==
    [][(tick' # tick /\ lastOp'.op = "BindResources") =>
          IF lastOp'.map = 0
          THEN /\ lastOp'.log = << "NullMapping" >>
               /\ cache' = cache
          ELSE Count(lastOp'.log, "NotFoundInMapping")
                  = IF "ALL_RESOLVED" \in lastOp'.flags
                    THEN Cardinality(MissingUnbound(lastOp', cache[lastOp'.layout],
                                                    layouts[lastOp'.layout]))
                    ELSE 0
      ]_vars

\* A pass with ALL_RESOLVED alone has reported one missing element of an array and
\* has kept silent about another missing element, which was bound
C31_Witness ==
    /\ lastOp.op = "BindResources" /\ lastOp.map # 0
    /\ lastOp.flags = {"ALL_RESOLVED"}
    /\ Count(lastOp.log, "NotFoundInMapping") = 1
    /\ \E j \in DOMAIN SlotSeq(layouts[lastOp.layout]) :
          LET e == SlotSeq(layouts[lastOp.layout])[j]
          IN /\ Mappings[lastOp.map][e.b.Attribs.Name][e.i] = Null
             /\ IsBound(cache[lastOp.layout], e.b, e.i)

----------------------------------------------------------------------------
(* C32, C33 *)

\* The last call copied the static resources of the shader into the cache of
\* the binding object
IsCopyIntoSRB(op) == op.op = "CopyStatic" /\ op.layout = "srb" /\ op.name = "stat"

\* C32: after CopyStaticResourceDesriptorHandles has returned without a fatal
\* error, every element of every static binding of the destination layout holds
\* in its destination slot the object, type and descriptor handle of the source
\* slot at its bind point in the table of its descriptor range type, and every
\* element of the sampler of such a binding holds those of the source slot at
\* the bind point of the sampler in the sampler table.
C32_StaticSlotsEqualSource ==
    (IsCopyIntoSRB(lastOp) /\ ~aborted) =>
        /\ \A r \in DOMAIN StaticBindings :
              \A i \in 0..(StaticBindings[r].Attribs.BindCount - 1) :
                 SlotOf(cache["srb"], StaticBindings[r], i) = SrcSlotOf(StaticBindings[r], i)
        /\ \A r \in WithSampler : \A i \in 0..(SamplerOf(r).Attribs.BindCount - 1) :
              SlotOf(cache["srb"], SamplerOf(r), i) = SrcSamplerSlotOf(SamplerOf(r), i)

\* The copy returned and a static texture and its sampler were written by it
C32_Witness ==
    /\ IsCopyIntoSRB(lastOp) /\ ~aborted
    /\ lastOp.copies >= 2
    /\ \E r \in WithSampler :
          /\ SlotOf(cache["srb"], StaticBindings[r], 0).pObject # Null
          /\ SlotOf(cache["srb"], SamplerOf(r), 0).pObject # Null
          /\ SlotOf(cache["srb"], SamplerOf(r), 0).Type = "Sampler"

\* The slots of the destination cache the static bindings and their samplers address
StaticAddressed ==
    UNION {SlotsOf(StaticBindings[r]) : r \in DOMAIN StaticBindings}
       \cup UNION {SlotsOf(SamplerOf(r)) : r \in WithSampler}

\* The slots of the destination cache the mutable and dynamic bindings address
NonStaticAddressed ==
    UNION {UNION {SlotsOf(layouts["srb"].SrvCbvUav[v][r]) :
                     r \in DOMAIN layouts["srb"].SrvCbvUav[v]} : v \in {"Mutable", "Dynamic"}}

\* C33: CopyStaticResourceDesriptorHandles writes only the destination slots of
\* the static bindings and of their samplers: every other slot of the
\* destination cache, the slots of the mutable and dynamic bindings among
\* them, and every slot of the source cache stay as they were; called on a
\* layout without a resource cache, or given one, it logs one error and
\* changes no cache.
C33_CopyWritesStaticSlotsOnly ==
    [][(tick' # tick /\ lastOp'.op = "CopyStatic") =>
          /\ cache'["stat"] = cache["stat"]
          /\ IsCopyIntoSRB(lastOp') =>
                /\ NonStaticAddressed \cap StaticAddressed = {}
                /\ \A s \in CacheSlots(cache["srb"]) \ StaticAddressed :
                      GetResource(cache["srb"], s[1], s[2])' = GetResource(cache["srb"], s[1], s[2])
          /\ ~IsCopyIntoSRB(lastOp') =>
                /\ lastOp'.log \in {<< "NoResourceCache" >>, << "NoSrcResourceCache" >>}
                /\ cache' = cache /\ ~aborted'
      ]_vars

\* The copy has written a static slot beside a mutable slot that is bound
C33_Witness ==
    /\ IsCopyIntoSRB(lastOp) /\ ~aborted
    /\ \E r \in DOMAIN StaticBindings :
          SlotOf(cache["srb"], StaticBindings[r], 0).pObject # Null
    /\ \E s \in NonStaticAddressed : GetResource(cache["srb"], s[1], s[2]).pObject # Null

\* The copy was called on the layout of the pipeline state, which has no cache
C33_WitnessNoCache ==
    /\ lastOp.op = "CopyStatic" /\ lastOp.layout = "ref"
    /\ lastOp.log = << "NoResourceCache" >>
    /\ \E r \in DOMAIN StaticBindings : SrcSlotOf(StaticBindings[r], 0).pObject # Null

----------------------------------------------------------------------------
(* C34 *)

\* The variable types the last Initialize call was given
IsInitialize(op) == op.op = "Initialize"
AllowedOf(op) == op.args[1]

\* The bindings in the array of a variable type are as many as the first pass
\* counted and all have that variable type
ArrayMatchesCount(count, array, v) ==
    /\ Len(array) = count
    /\ \A r \in DOMAIN array : array[r].Attribs.VarType = v

\* C34: after Initialize, for every variable type, the second pass has
\* constructed as many resource bindings as the first pass counted, and as many
\* sampler bindings; every binding in the array of a variable type has that
\* variable type; a variable type outside the filter has no binding.
C34_ConstructedEqualsCounted ==
    [][(tick' # tick /\ IsInitialize(lastOp')) =>
          \A v \in VarTypes :
             /\ ArrayMatchesCount(layouts'[lastOp'.layout].NumCbvSrvUav[v],
                                  layouts'[lastOp'.layout].SrvCbvUav[v], v)
             /\ ArrayMatchesCount(layouts'[lastOp'.layout].NumSamplers[v],
                                  layouts'[lastOp'.layout].Samplers[v], v)
             /\ v \notin AllowedOf(lastOp') =>
                   /\ layouts'[lastOp'.layout].NumCbvSrvUav[v] = 0
                   /\ layouts'[lastOp'.layout].NumSamplers[v] = 0
      ]_vars

\* Initialize was given the mutable and dynamic variables of a shader that has
\* static variables as well, and has constructed a texture and its sampler
C34_Witness ==
    /\ IsInitialize(lastOp) /\ AllowedOf(lastOp) = {"Mutable", "Dynamic"}
    /\ \E r \in DOMAIN shader.Resources : shader.Resources[r].VarType = "Static"
    /\ \E v \in AllowedOf(lastOp) :
          /\ layouts[lastOp.layout].NumCbvSrvUav[v] > 0
          /\ layouts[lastOp.layout].NumSamplers[v] > 0
    /\ layouts[lastOp.layout].NumCbvSrvUav["Static"] = 0

----------------------------------------------------------------------------
(* C35 *)

\* Every element of every binding and sampler of the layout has a slot in the cache
AllResolvedInCache(L, c) ==
    \A k \in DOMAIN AllBindings(L) : \A s \in SlotsOf(AllBindings(L)[k]) : InCache(c, s[1], s[2])

\* Every slot of the cache is as ShaderResourceCacheD3D12::Initialize leaves it
JustInitialized(c) ==
    \A s \in CacheSlots(c) : GetResource(c, s[1], s[2]) = NullResource

\* The calls of the allocator a layout asks for: one for each resource binding
\* and one for each sampler binding
AllocatorCalls(L) == Len(AllSrvCbvUav(L)) + Len(AllSamplers(L))

\* C35: Initialize is given either a resource cache or a root signature. Given
\* a cache it initializes that cache once, with four tables that hold a slot for
\* every resource it has resolved, and asks no allocator; given a root signature
\* it initializes no cache and asks the allocator once for every resource
\* binding and once for every sampler that is not static. The clone
\* constructor leaves the cache it is given as it is.
C35_CacheInitializedInStaticModeOnly ==
    [][/\ (tick' # tick /\ IsInitialize(lastOp') /\ lastOp'.layout = "stat") =>
             /\ HasResourceCache("stat")
             /\ rootSig' = rootSig /\ lastOp'.lookups = 0
             /\ GetNumRootTables(cache'["stat"]) = 4
             /\ AllResolvedInCache(layouts'["stat"], cache'["stat"])
             /\ JustInitialized(cache'["stat"])
       /\ (tick' # tick /\ IsInitialize(lastOp') /\ lastOp'.layout = "ref") =>
             /\ ~HasResourceCache("ref")
             /\ cache' = cache
             /\ lastOp'.lookups = AllocatorCalls(layouts'["ref"])
       /\ (tick' # tick /\ lastOp'.op = "Clone" /\ lastOp'.layout = "srb2") =>
             cache' = cache
      ]_vars

\* Initialize on a cache has resolved a texture and its sampler
C35_Witness ==
    /\ IsInitialize(lastOp) /\ lastOp.layout = "stat"
    /\ Len(AllSamplers(layouts["stat"])) > 0
    /\ GetNumRootTables(cache["stat"]) = 4

\* Initialize on a root signature has asked the allocator for a texture with a
\* sampler and for a texture with a static sampler
C35_WitnessRootSig ==
    /\ IsInitialize(lastOp) /\ lastOp.layout = "ref"
    /\ Len(AllSamplers(layouts["ref"])) > 0
    /\ lastOp.lookups > Len(AllSrvCbvUav(layouts["ref"]))

\* The clone constructor has run on the layout of a pipeline state with bindings
C35_WitnessClone ==
    /\ lastOp.op = "Clone" /\ lastOp.layout = "srb2"
    /\ Len(AllSrvCbvUav(layouts["srb2"])) > 0
    /\ cache["srb2"] = << >>

----------------------------------------------------------------------------
(* C38 *)

\* The render target slots past the count hold no view
UnusedTargetsAreNull(dc) ==
    \A rt \in DOMAIN dc.m_pBoundRenderTargets :
       rt >= dc.m_NumBoundRenderTargets => dc.m_pBoundRenderTargets[rt] = Null

\* In every state of the context the slots past the count hold no view
UnusedTargetsStayNull == UnusedTargetsAreNull(deviceContext)

\* C38: after every SetRenderTargets call the cached width, height and number
\* of slices of the framebuffer are greater than 0, whatever the arguments are,
\* render targets that are all null and no depth stencil view included, and
\* every render target slot past m_NumBoundRenderTargets is null.
C38_FramebufferSizedAfterSet ==
    IsSetRenderTargets(lastOp) =>
        /\ FramebufferHasSize(deviceContext)
        /\ UnusedTargetsAreNull(deviceContext)

\* The call was given render targets that are all null and no depth stencil
\* view, and has left the framebuffer without a size
NullTargetsLeaveNoSize ==
    /\ IsSetRenderTargets(lastOp)
    /\ Len(lastOp.args[1]) > 0
    /\ \A k \in DOMAIN lastOp.args[1] : lastOp.args[1][k] = Null
    /\ lastOp.args[2] = Null
    /\ ~FramebufferHasSize(deviceContext)
    /\ aborted

----------------------------------------------------------------------------
(* C36, C37 *)

\* The last call was SetVertexBuffers with a slot range inside the array
IsSetVertexBuffersInRange(op) ==
    /\ op.op = "SetVertexBuffers"
    /\ op.args[1] + op.args[2] <= MaxBufferSlots

\* C36: SetVertexBuffers called with StartSlot + NumBuffersSet <= MaxBufferSlots
\* reads and writes no vertex stream slot outside [0, MaxBufferSlots - 1],
\* whatever buffers are null, the one of the last slot MaxBufferSlots - 1 included.
C36_StreamsAccessedInRange ==
    IsSetVertexBuffersInRange(lastOp) => ~lastOp.outOfRange

\* The vertex streams past the count are empty and the last stream counted
\* holds a buffer
StreamsTrimmed(dc) ==
    /\ \A s \in DOMAIN dc.m_VertexStreams :
          s >= dc.m_NumVertexStreams => dc.m_VertexStreams[s] = EmptyStream
    /\ \/ dc.m_NumVertexStreams = 0
       \/ dc.m_VertexStreams[dc.m_NumVertexStreams - 1].pBuffer # Null

\* C37: after any sequence of SetVertexBuffers and ClearStateCache calls every
\* vertex stream slot at or past m_NumVertexStreams holds a null buffer and the
\* offset 0, and m_NumVertexStreams is 0 or the slot before it holds a buffer.
C37_StreamsPastCountAreEmpty == StreamsTrimmed(deviceContext)

\* The streams are left with a null buffer that keeps its offset although no
\* call has written outside the array
NullStreamKeepsOffset ==
    /\ lastOp.op = "SetVertexBuffers" /\ ~lastOp.outOfRange
    /\ deviceContext.m_NumVertexStreams = 0
    /\ deviceContext.m_VertexStreams[0] = [pBuffer |-> Null, Offset |-> 4]

----------------------------------------------------------------------------
(* C39 *)

\* C39: after InvalidateState, whatever calls came before, the context caches
\* what a new context caches: no vertex stream and every stream slot empty,
\* no pipeline state, no index buffer and the index offset 0, the stencil
\* reference 0, the blend factors -1, no viewport and no scissor rect, no render
\* target and no depth stencil view, a framebuffer of size 0 that is not the
\* default one. The swap chain is no part of that state.
C39_InvalidateGivesNewContext ==
    lastOp.op = "InvalidateState" =>
        deviceContext = [NewDeviceContext EXCEPT !.m_pSwapChain = deviceContext.m_pSwapChain,
                                                 !.m_Viewports = deviceContext.m_Viewports,
                                                 !.m_ScissorRects = deviceContext.m_ScissorRects]

\* Every cached value but the vertex streams is that of a new context
NewButStreams(dc) ==
    dc = [NewDeviceContext EXCEPT !.m_pSwapChain = dc.m_pSwapChain,
                                  !.m_Viewports = dc.m_Viewports,
                                  !.m_ScissorRects = dc.m_ScissorRects,
                                  !.m_VertexStreams = dc.m_VertexStreams]

\* After InvalidateState every value but the vertex streams is that of a new context
InvalidateResetsButStreams == lastOp.op = "InvalidateState" => NewButStreams(deviceContext)

\* InvalidateState has left a stream slot with the offset a call gave it
InvalidateKeepsOffset ==
    /\ lastOp.op = "InvalidateState"
    /\ deviceContext.m_NumVertexStreams = 0
    /\ deviceContext.m_VertexStreams[0] = [pBuffer |-> Null, Offset |-> 4]

----------------------------------------------------------------------------
(* C40 *)

\* The constructor has returned: nothing was thrown and no assertion failed
IsConstructed(op) ==
    /\ op.op = "PipelineStateBase"
    /\ ~op.ret.thrown /\ ~op.ret.fatal

\* First byte past a layout element
ElementEnd(e) == e.RelativeOffset + e.NumComponents * GetValueSize(e.ValueType)

\* The stride of the slot of every element reaches the end of the element
StridesCoverElements(pso) ==
    \A k \in DOMAIN pso.m_LayoutElements :
       pso.m_Strides[pso.m_LayoutElements[k].BufferSlot] >= ElementEnd(pso.m_LayoutElements[k])

\* The Stride field of every element is the stride of its slot
ElementStridesAreSlotStrides(pso) ==
    \A k \in DOMAIN pso.m_LayoutElements :
       pso.m_LayoutElements[k].Stride = pso.m_Strides[pso.m_LayoutElements[k].BufferSlot]

\* No two elements of one slot share a byte
ElementsDisjoint(pso) ==
    \A j \in DOMAIN pso.m_LayoutElements, k \in DOMAIN pso.m_LayoutElements :
       (j < k /\ pso.m_LayoutElements[j].BufferSlot = pso.m_LayoutElements[k].BufferSlot) =>
           \/ ElementEnd(pso.m_LayoutElements[j]) <= pso.m_LayoutElements[k].RelativeOffset
           \/ ElementEnd(pso.m_LayoutElements[k]) <= pso.m_LayoutElements[j].RelativeOffset

\* C40: after the PipelineStateBase constructor has succeeded, the stride of
\* every buffer slot the input layout uses is at least the end (relative offset
\* + NumComponents * value size) of every layout element of that slot, the
\* Stride field of every element equals the stride of its slot, and no two
\* elements of one slot overlap, for offsets assigned automatically
\* (RelativeOffset 0) and for offsets given explicitly.
C40_StridesCoverDisjointElements ==
    IsConstructed(lastOp) =>
        /\ StridesCoverElements(lastOp.ret)
        /\ ElementStridesAreSlotStrides(lastOp.ret)
        /\ ElementsDisjoint(lastOp.ret)

\* After a successful construction the Stride field of every element is the
\* stride of its slot
ConstructedStridesAgree ==
    IsConstructed(lastOp) => ElementStridesAreSlotStrides(lastOp.ret)

\* With every offset left to the constructor the strides cover the elements
\* and the elements are disjoint
AutomaticOffsetsArePacked ==
    (IsConstructed(lastOp) /\ \A k \in DOMAIN lastOp.args : lastOp.args[k].RelativeOffset = 0) =>
        /\ StridesCoverElements(lastOp.ret)
        /\ ElementsDisjoint(lastOp.ret)

\* One element given at an offset past 0 is constructed with a stride that
\* ends before the element does
ExplicitOffsetPastStride ==
    /\ IsConstructed(lastOp) /\ ~aborted
    /\ Len(lastOp.args) = 1 /\ lastOp.args[1].RelativeOffset > 0
    /\ ~StridesCoverElements(lastOp.ret)

\* An element given at an offset past 0 and an element left to the constructor
\* are constructed on the same bytes
AutomaticOffsetOverlapsExplicit ==
    /\ IsConstructed(lastOp) /\ ~aborted
    /\ Len(lastOp.args) = 2
    /\ lastOp.args[1].RelativeOffset > 0 /\ lastOp.args[2].RelativeOffset = 0
    /\ ~ElementsDisjoint(lastOp.ret)

====
